---- MODULE Spec2Model ----
(***************************************************************************)
(* Model of the job-description scraper of resume_screener                 *)
(* (src/job_scraper.py): the dispatcher scrape_job_description with its    *)
(* URL validation, domain dispatch and retry loop, and the per-site and   *)
(* generic extractors as far as their return values are concerned.        *)
(*                                                                         *)
(* URLs are sequences of one-character strings, so that strip, startswith, *)
(* urlparse, lower and the substring test are computed character by        *)
(* character.  Page texts and messages are TLA+ strings; Len and \o on     *)
(* them are Python's len and string concatenation.                         *)
(***************************************************************************)
EXTENDS Integers, Sequences, FiniteSets, TLC

VARIABLES input, url, pc, domain, attempt, result, log, outcomes, responses,
          text, cleaned, session, history,
          flow, node, wstate, whist,
          bpc, resume, jobs, results, candidateInfo, btrace, summary, batches,
          doc, got

\* the variables of a scrape_job_description call
scraperVars ==
    <<input, url, pc, domain, attempt, result, log, outcomes, responses>>

\* the argument of clean_description and the values it returned
cleanerVars == <<text, cleaned>>

\* the cookies of self.session of the process-wide scraper and, per finished
\* call on it, the argument and the value returned
sessionVars == <<session, history>>

\* the workflow that runs, the node that runs next, the state passed from
\* node to node and, per node that ran, the state it got and returned
workflowVars == <<flow, node, wstate, whist>>

\* a BatchResumeScreener: where process_resume_against_jobs stands, its
\* arguments, self.results, self.candidate_info, the requests and pauses of
\* the call, the summary it returned and the number of calls on the instance
batchVars ==
    <<bpc, resume, jobs, results, candidateInfo, btrace, summary, batches>>

\* the document a LinkedIn extraction pass reads and what the pass gave
linkedinVars == <<doc, got>>

laterVars == <<workflowVars, batchVars, linkedinVars>>

vars == <<scraperVars, cleanerVars, sessionVars, laterVars>>

---------------------------------------------------------------------------
(* Characters *)

cUpper == <<"A", "B", "C", "D", "E", "F", "G", "H", "I", "J", "K", "L", "M", "N", "O", "P", "Q", "R", "S", "T", "U", "V", "W", "X", "Y", "Z">>
cLower == <<"a", "b", "c", "d", "e", "f", "g", "h", "i", "j", "k", "l", "m", "n", "o", "p", "q", "r", "s", "t", "u", "v", "w", "x", "y", "z">>
cDigits == <<"0", "1", "2", "3", "4", "5", "6", "7", "8", "9">>
cPlusMinusDot == <<"+", "-", ".">>

cHttp == <<"h", "t", "t", "p">>
cHttpUpper == <<"H", "T", "T", "P">>
cFtp == <<"f", "t", "p">>
cColon == <<":">>
cSlashes == <<"/", "/">>
cSpace == <<" ">>
cDot == <<".">>
cWww == <<"w", "w", "w", ".">>
cLinkedin == <<"l", "i", "n", "k", "e", "d", "i", "n", ".", "c", "o", "m">>
cLinkedinMixed == <<"L", "i", "n", "k", "e", "d", "I", "n", ".", "C", "O", "M">>
cIndeed == <<"i", "n", "d", "e", "e", "d", ".", "c", "o", "m">>
cGlassdoor == <<"g", "l", "a", "s", "s", "d", "o", "o", "r", ".", "c", "o", "m">>
cMonster == <<"m", "o", "n", "s", "t", "e", "r", ".", "c", "o", "m">>
cCareerbuilder == <<"c", "a", "r", "e", "e", "r", "b", "u", "i", "l", "d", "e", "r", ".", "c", "o", "m">>
cExample == <<"e", "x", "a", "m", "p", "l", "e", ".", "o", "r", "g">>
cJobsPath == <<"/", "j", "o", "b", "s">>
cSlash == <<"/">>
cQuery == <<"?", "q", "=">>
cBracket == <<"[">>

Range(s) == { s[i] : i \in DOMAIN s }

Whitespace == {" ", "\t", "\n"}

---------------------------------------------------------------------------
(* Python string operations on character sequences *)

RECURSIVE LStrip(_)
LStrip(s) ==
    IF s # <<>> /\ Head(s) \in Whitespace THEN LStrip(Tail(s)) ELSE s

RECURSIVE RStrip(_)
RStrip(s) ==
    IF s # <<>> /\ s[Len(s)] \in Whitespace
    THEN RStrip(SubSeq(s, 1, Len(s) - 1))
    ELSE s

\* str.strip()
Strip(s) == RStrip(LStrip(s))

\* str.startswith(p)
StartsWith(s, p) == Len(s) >= Len(p) /\ SubSeq(s, 1, Len(p)) = p

\* p in s
Contains(s, p) ==
    \E i \in 1..(Len(s) - Len(p) + 1) : SubSeq(s, i, i + Len(p) - 1) = p

LowerChar(c) ==
    IF c \in Range(cUpper)
    THEN cLower[CHOOSE i \in DOMAIN cUpper : cUpper[i] = c]
    ELSE c

\* str.lower()
Lower(s) == [i \in DOMAIN s |-> LowerChar(s[i])]

\* s.find(c) + 1: the first position of a character of cset at or after
\* position from, 0 when there is none
FindFrom(s, cset, from) ==
    IF \E i \in from..Len(s) : s[i] \in cset
    THEN CHOOSE i \in from..Len(s) :
            /\ s[i] \in cset
            /\ \A j \in from..(i - 1) : s[j] \notin cset
    ELSE 0


\* s.find(p, from) + 1: the first position at or after from where p occurs,
\* 0 when there is none
Find(s, p, from) ==
    IF \E i \in from..(Len(s) - Len(p) + 1) : SubSeq(s, i, i + Len(p) - 1) = p
    THEN CHOOSE i \in from..(Len(s) - Len(p) + 1) :
            /\ SubSeq(s, i, i + Len(p) - 1) = p
            /\ \A j \in from..(i - 1) : SubSeq(s, j, j + Len(p) - 1) # p
    ELSE 0

\* s.split(p)[0]
SplitFirst(s, p) ==
    LET a == Find(s, p, 1)
    IN  IF a = 0 THEN s ELSE SubSeq(s, 1, a - 1)

\* s.split(p)[1], for an s that contains p
SplitSecond(s, p) ==
    LET a == Find(s, p, 1)
    IN  SplitFirst(SubSeq(s, a + Len(p), Len(s)), p)

(* Literals of the regular expressions *)

cCookie == <<"c", "o", "o", "k", "i", "e">>
cPrivacyPolicy == <<"p", "r", "i", "v", "a", "c", "y", " ", "p", "o", "l", "i", "c", "y">>
cTermsOfService == <<"t", "e", "r", "m", "s", " ", "o", "f", " ", "s", "e", "r", "v", "i", "c", "e">>
cAllRightsReserved == <<"a", "l", "l", " ", "r", "i", "g", "h", "t", "s", " ", "r", "e", "s", "e", "r", "v", "e", "d">>
cPoweredBy == <<"p", "o", "w", "e", "r", "e", "d", " ", "b", "y">>
cLoadingDots == <<"l", "o", "a", "d", "i", "n", "g", ".", ".", ".">>
cBasePayRange == <<"b", "a", "s", "e", " ", "p", "a", "y", " ", "r", "a", "n", "g", "e">>
cPayRange == <<"p", "a", "y", " ", "r", "a", "n", "g", "e">>
cYr == <<"y", "r">>
cEllipsis == <<".", ".", ".">>
cHiringSep ==
    <<" ", "h", "i", "r", "i", "n", "g", " ">>
cDashSep ==
    <<" ", "-", " ">>
cAtSep ==
    <<" ", "a", "t", " ">>
cBarSep ==
    <<" ", "|", " ">>
cYouMayAlsoApplyDirectlyOn ==
    <<"y", "o", "u", " ", "m", "a", "y", " ", "a", "l", "s", "o", " ", "a",
      "p", "p", "l", "y", " ", "d", "i", "r", "e", "c", "t", "l", "y", " ",
      "o", "n">>
cApplyDirectlyOn ==
    <<"a", "p", "p", "l", "y", " ", "d", "i", "r", "e", "c", "t", "l", "y",
      " ", "o", "n">>
cWebsite ==
    <<"w", "e", "b", "s", "i", "t", "e">>
cCopyrightSign ==
    <<"©">>
cPayFoundInJobPost ==
    <<"p", "a", "y", " ", "f", "o", "u", "n", "d", " ", "i", "n", " ", "j",
      "o", "b", " ", "p", "o", "s", "t">>
cRetrievedFromTheDescription ==
    <<"r", "e", "t", "r", "i", "e", "v", "e", "d", " ", "f", "r", "o", "m",
      " ", "t", "h", "e", " ", "d", "e", "s", "c", "r", "i", "p", "t", "i",
      "o", "n">>
cApply ==
    <<"a", "p", "p", "l", "y">>
cDirectly ==
    <<"d", "i", "r", "e", "c", "t", "l", "y">>
cLoading ==
    <<"l", "o", "a", "d", "i", "n", "g">>

\* the lower-case literal lit matches s at position i, ignoring case
LiteralAt(s, i, lit) ==
    /\ i >= 1
    /\ i + Len(lit) - 1 <= Len(s)
    /\ \A k \in 1..Len(lit) : LowerChar(s[i + k - 1]) = lit[k]

\* the first position at or after i whose character is not in cset
SkipWhile(s, i, cset) ==
    IF \E j \in i..Len(s) : s[j] \notin cset
    THEN CHOOSE j \in i..Len(s) :
            /\ s[j] \notin cset
            /\ \A k \in i..(j - 1) : s[k] \in cset
    ELSE Len(s) + 1

---------------------------------------------------------------------------
(* urllib.parse.urlparse, as far as netloc is concerned *)

SchemeChars == Range(cUpper) \cup Range(cLower) \cup Range(cDigits)
                   \cup Range(cPlusMinusDot)

\* the text left after the scheme has been split off
AfterScheme(u) ==
    LET i == FindFrom(u, {":"}, 1)
    IN  IF /\ i > 1
           /\ u[1] \in Range(cUpper) \cup Range(cLower)
           /\ \A j \in 1..(i - 1) : u[j] \in SchemeChars
        THEN SubSeq(u, i + 1, Len(u))
        ELSE u

\* parsed_url.netloc
Netloc(u) ==
    LET rest == AfterScheme(u)
    IN  IF StartsWith(rest, cSlashes)
        THEN LET d == FindFrom(rest, {"/", "?", "#"}, 3)
             IN  IF d = 0 THEN SubSeq(rest, 3, Len(rest))
                          ELSE SubSeq(rest, 3, d - 1)
        ELSE <<>>

\* urlparse raises ValueError("Invalid IPv6 URL") on unbalanced brackets
UrlparseRaises(u) ==
    LET n == Netloc(u)
    IN  \/ ("[" \in Range(n) /\ "]" \notin Range(n))
        \/ ("]" \in Range(n) /\ "[" \notin Range(n))

---------------------------------------------------------------------------
(* Page texts *)

\* 50 characters: "Senior engineer role: requirements and experience."
Pad50 ==
    <<"S", "e", "n", "i", "o", "r", " ", "e", "n", "g", "i", "n", "e", "e", "r", " ", "r", "o", "l", "e", ":", " ",
       "r", "e", "q", "u", "i", "r", "e", "m", "e", "n", "t", "s", " ", "a", "n", "d", " ",
       "e", "x", "p", "e", "r", "i", "e", "n", "c", "e", ".">>

D50 == Pad50
D100 == Pad50 \o Pad50
D101 == D100 \o <<"!">>
D200 == D100 \o D100
D201 == D200 \o <<"!">>
D250 == D200 \o Pad50

\* 159 characters: the text of an element that holds a cookie banner
DBanner ==
    D101 \o <<" ", "c", "o", "o", "k", "i", "e", " ">> \o Pad50

\* number of selectors of a description selector list that are modelled
MaxSelectors == 2

\* what soup.select_one(selector) gives for one selector: <<>> when nothing
\* matches, <<text>> with the element's get_text(strip=True) otherwise
ElemOptions == { <<>>, <<D50>>, <<D101>>, <<D250>>, <<DBanner>> }

ElemSeqs == [1..MaxSelectors -> ElemOptions]

tDataEngineer == <<"D", "a", "t", "a", " ", "E", "n", "g", "i", "n", "e", "e", "r">>
tStaffEngineer == <<"S", "t", "a", "f", "f", " ", "E", "n", "g", "i", "n", "e", "e", "r">>
tAcmeCorp == <<"A", "c", "m", "e", " ", "C", "o", "r", "p">>

tGlobex == <<"G", "l", "o", "b", "e", "x">>
tHq == <<"H", "Q">>

Titles == {tDataEngineer, tStaffEngineer}

\* texts of the <title> element of a LinkedIn page
ptHiring ==
    <<"A", "c", "m", "e", " ", "C", "o", "r", "p", " ", "h", "i", "r", "i",
      "n", "g", " ", "B", "a", "c", "k", "e", "n", "d", " ", "E", "n", "g",
      "i", "n", "e", "e", "r", " ", "i", "n", " ", "R", "e", "m", "o", "t",
      "e", " ", "|", " ", "L", "i", "n", "k", "e", "d", "I", "n">>
ptDash ==
    <<"B", "a", "c", "k", "e", "n", "d", " ", "E", "n", "g", "i", "n", "e",
      "e", "r", " ", "-", " ", "A", "c", "m", "e", " ", "C", "o", "r", "p",
      " ", "|", " ", "L", "i", "n", "k", "e", "d", "I", "n">>
ptAt ==
    <<"B", "a", "c", "k", "e", "n", "d", " ", "E", "n", "g", "i", "n", "e",
      "e", "r", " ", "a", "t", " ", "A", "c", "m", "e", " ", "C", "o", "r",
      "p", " ", "|", " ", "L", "i", "n", "k", "e", "d", "I", "n">>
ptAllThree ==
    <<"G", "l", "o", "b", "e", "x", " ", "h", "i", "r", "i", "n", "g", " ",
      "E", "n", "g", "i", "n", "e", "e", "r", " ", "-", " ", "R", "e", "m",
      "o", "t", "e", " ", "a", "t", " ", "I", "n", "i", "t", "e", "c", "h",
      " ", "|", " ", "L", "i", "n", "k", "e", "d", "I", "n">>
ptDashAt ==
    <<"E", "n", "g", "i", "n", "e", "e", "r", " ", "a", "t", " ", "I", "n",
      "i", "t", "e", "c", "h", " ", "-", " ", "G", "l", "o", "b", "e", "x",
      " ", "|", " ", "L", "i", "n", "k", "e", "d", "I", "n">>
ptApply ==
    <<"A", "p", "p", "l", "y", " ", "I", "n", "c", " ", "h", "i", "r", "i",
      "n", "g", " ", "E", "n", "g", "i", "n", "e", "e", "r", " ", "|", " ",
      "L", "i", "n", "k", "e", "d", "I", "n">>
ptPowered ==
    <<"G", "l", "o", "b", "e", "x", " ", "p", "o", "w", "e", "r", "e", "d",
      " ", "b", "y", " ", "I", "n", "i", "t", "e", "c", "h", " ", "h", "i",
      "r", "i", "n", "g", " ", "E", "n", "g", "i", "n", "e", "e", "r", " ",
      "|", " ", "L", "i", "n", "k", "e", "d", "I", "n">>

\* soup.find('title'): <<>> when the page has no <title>, <<text>> with its
\* get_text(strip=True) otherwise
PageTitles ==
    { <<>>, <<ptHiring>>, <<ptDash>>, <<ptAt>>, <<ptAllThree>>, <<ptDashAt>>,
      <<ptApply>>, <<ptPowered>> }

\* what the company selector loop leaves in company: nothing, the name of a
\* match of 3 to 99 characters, or the text of a last match out of that range
SelectorCompanies == { <<>>, tAcmeCorp, tHq }

\* what the company_patterns loop finds in the description: the group of
\* the first pattern that matches and passes the validation, <<>> if none
FoundCompanies == { <<>>, tGlobex }

\* messages of the exceptions of the transport and of a strategy
NetMsgs == {"timed out", "404 Client Error"}

Response(k, t, e, d, c, m) ==
    [kind |-> k, title |-> t, elems |-> e, cleaned |-> d, company |-> c,
     msg |-> m, ptitle |-> <<>>, found |-> <<>>]

\* a fetched page of a site with a description selector list: the title and
\* company the selector loops found and, per description selector, its match
SelectorPages ==
    { Response("page", t, e, <<>>, tAcmeCorp, "") : t \in Titles, e \in ElemSeqs }

\* a fetched LinkedIn page: the title its fallback chain found, the
\* description left by the description passes and the clean-up, and what the
\* stages of the company extraction read from the page
LinkedinPage(t, d, c, pt, f) ==
    [Response("page", t, [i \in 1..MaxSelectors |-> <<>>], d, c, "")
        EXCEPT !.ptitle = pt, !.found = f]

\* pages that differ in the description, and pages with a description long
\* enough that differ in what the company stages read
LinkedinPages ==
    { LinkedinPage(t, d, tAcmeCorp, <<>>, <<>>) :
        t \in Titles, d \in {<<>>, D200, D201, D250} }
    \cup
    { LinkedinPage(tDataEngineer, D201, c, pt, f) :
        c \in SelectorCompanies, pt \in PageTitles, f \in FoundCompanies }

\* no page was obtained: its fields are empty
NoPage(k, m) ==
    Response(k, <<>>, [i \in 1..MaxSelectors |-> <<>>], <<>>, <<>>, m)

\* session.get or raise_for_status raised
NetErrors == { NoPage("neterror", m) : m \in NetMsgs }

\* messages of the exceptions raised while the fetched page is parsed
ParseMsgs == {"html parser error"}

\* the page was fetched and BeautifulSoup, a selector or a regex raised
ParseErrors == { NoPage("parseerror", m) : m \in ParseMsgs }

\* the strategy invocation itself raised
Raises == { NoPage("raise", m) : m \in NetMsgs }

Responses(strategy) ==
    (IF strategy = "linkedin" THEN LinkedinPages ELSE SelectorPages)
        \cup NetErrors \cup ParseErrors \cup Raises

---------------------------------------------------------------------------
(* The extractors: the value each returns for a response of the transport *)

\* a selector loop that keeps the text of each match and stops at the first
\* one longer than min
RECURSIVE SelectorLoop(_, _, _, _)
SelectorLoop(elems, i, cur, min) ==
    IF i > Len(elems) THEN cur
    ELSE IF elems[i] = <<>> THEN SelectorLoop(elems, i + 1, cur, min)
    ELSE IF Len(elems[i][1]) > min THEN elems[i][1]
    ELSE SelectorLoop(elems, i + 1, elems[i][1], min)

\* soup.select_one of one selector
SelectOne(elems) ==
    IF Len(elems) >= 1 /\ elems[1] # <<>> THEN elems[1][1] ELSE <<>>

LinkedinMinLength == 200
IndeedMinLength == 100
GenericMinLength == 100

\* the if/elif chain over the text of the page's <title>
CompanyFromTitle(company, title_text) ==
    IF Contains(title_text, cHiringSep)
    THEN Strip(SplitFirst(title_text, cHiringSep))
    ELSE IF Contains(title_text, cDashSep)
    THEN Strip(SplitFirst(SplitSecond(title_text, cDashSep), cBarSep))
    ELSE IF Contains(title_text, cAtSep)
    THEN Strip(SplitFirst(SplitSecond(title_text, cAtSep), cBarSep))
    ELSE company

UiPattern(k, h, t) == [kind |-> k, head |-> h, tail |-> t]

\* ui_text_patterns, in the order they are applied: head, head.* and
\* head.*?tail
UiTextPatterns ==
    << UiPattern("lazy", cYouMayAlsoApplyDirectlyOn, cWebsite),
       UiPattern("lazy", cApplyDirectlyOn, cWebsite),
       UiPattern("greedy", cPoweredBy, <<>>),
       UiPattern("lazy", cCopyrightSign, cAllRightsReserved),
       UiPattern("literal", cLoadingDots, <<>>),
       UiPattern("literal", cPayFoundInJobPost, <<>>),
       UiPattern("literal", cRetrievedFromTheDescription, <<>>) >>

\* the position after the match of pat that starts at position i, 0 if none
UiMatchEnd(pat, s, i) ==
    IF ~LiteralAt(s, i, pat.head) THEN 0
    ELSE LET a == i + Len(pat.head)
             nl == FindFrom(s, {"\n"}, a)
             eol == IF nl = 0 THEN Len(s) + 1 ELSE nl
         IN  CASE pat.kind = "literal" -> a
               [] pat.kind = "greedy" -> eol
               [] OTHER ->
                    IF \E j \in a..eol : LiteralAt(s, j, pat.tail)
                    THEN LET j == CHOOSE j \in a..eol :
                                     /\ LiteralAt(s, j, pat.tail)
                                     /\ \A k \in a..(j - 1) :
                                            ~LiteralAt(s, k, pat.tail)
                         IN  j + Len(pat.tail)
                    ELSE 0

\* re.sub(pattern, '', company, flags=re.IGNORECASE) from position p on
RECURSIVE RemoveUiFrom(_, _, _)
RemoveUiFrom(pat, s, p) ==
    IF \E i \in p..Len(s) : UiMatchEnd(pat, s, i) > 0
    THEN LET i == CHOOSE i \in p..Len(s) :
                     /\ UiMatchEnd(pat, s, i) > 0
                     /\ \A j \in p..(i - 1) : UiMatchEnd(pat, s, j) = 0
         IN  SubSeq(s, p, i - 1) \o RemoveUiFrom(pat, s, UiMatchEnd(pat, s, i))
    ELSE SubSeq(s, p, Len(s))

\* the for loop over ui_text_patterns, from pattern k on
RECURSIVE RemoveUiText(_, _)
RemoveUiText(s, k) ==
    IF k > Len(UiTextPatterns) THEN s
    ELSE RemoveUiText(RemoveUiFrom(UiTextPatterns[k], s, 1), k + 1)

SuspiciousWords == { cApply, cWebsite, cDirectly, cLoading }

MinCompanyLength == 3

\* the clean-up of the company name
CleanCompany(company) ==
    IF company = <<>> THEN <<>>
    ELSE LET c == Strip(RemoveUiText(company, 1))
         IN  IF \/ Len(c) < MinCompanyLength
                \/ \E w \in SuspiciousWords : Contains(Lower(c), w)
             THEN <<>>
             ELSE c

\* re.match(r'([A-Z][a-zA-Z0-9&]*)', description.strip())
FirstCapitalizedWord(description) ==
    LET s == Strip(description)
    IN  IF s = <<>> \/ s[1] \notin Range(cUpper) THEN <<>>
        ELSE SubSeq(s, 1,
                 SkipWhile(s, 2, Range(cUpper) \cup Range(cLower)
                                    \cup Range(cDigits) \cup {"&"}) - 1)

\* the company the LinkedIn extractor ends with: the selector loop, the
\* page title, the clean-up, the patterns over the description and the
\* first capitalized word of the description
LinkedinCompany(r, description) ==
    LET selected == r.company
        titled == IF (selected = <<>> \/ Strip(selected) = <<>>)
                     /\ r.ptitle # <<>>
                  THEN CompanyFromTitle(selected, r.ptitle[1])
                  ELSE selected
        cleanedUp == CleanCompany(titled)
        found == IF cleanedUp = <<>> THEN r.found ELSE cleanedUp
    IN  IF found = <<>> THEN FirstCapitalizedWord(description) ELSE found

LinkedinFailure(description) ==
    <<FALSE, "", "Could not find complete job description on LinkedIn page. The page may use dynamic loading or have restricted access.">>

\* variant: any non-empty description counts, as in the other extractors
ScrapeLinkedin_NoMinLength(r) ==
    IF r.kind # "page"
    THEN <<FALSE, "", "", "Error scraping LinkedIn: " \o r.msg>>
    ELSE LET description == r.cleaned
         IN  IF description # <<>>
             THEN <<TRUE, r.title, description,
                    LinkedinCompany(r, description)>>
             ELSE LinkedinFailure(description)

\* variant: a description of exactly the minimum length counts
ScrapeLinkedin_AtLeast(r) ==
    IF r.kind # "page"
    THEN <<FALSE, "", "", "Error scraping LinkedIn: " \o r.msg>>
    ELSE LET description == r.cleaned
         IN  IF description # <<>> /\ Len(description) >= LinkedinMinLength
             THEN <<TRUE, r.title, description,
                    LinkedinCompany(r, description)>>
             ELSE LinkedinFailure(description)

ScrapeLinkedin(r) ==
    IF r.kind # "page"
    THEN <<FALSE, "", "", "Error scraping LinkedIn: " \o r.msg>>
    ELSE LET description == r.cleaned
         IN  IF description # <<>> /\ Len(description) > LinkedinMinLength
             THEN <<TRUE, r.title, description,
                    LinkedinCompany(r, description)>>
             ELSE LinkedinFailure(description)

IndeedFailure(description) ==
    <<FALSE, "", "Could not find job description on Indeed page">>

ScrapeIndeed(r) ==
    IF r.kind # "page"
    THEN <<FALSE, "", "", "Error scraping Indeed: " \o r.msg>>
    ELSE LET description == SelectorLoop(r.elems, 1, <<>>, IndeedMinLength)
         IN  IF description # <<>>
             THEN <<TRUE, r.title, description, r.company>>
             ELSE IndeedFailure(description)

ScrapeGlassdoor(r) ==
    IF r.kind # "page"
    THEN <<FALSE, "", "", "Error scraping Glassdoor: " \o r.msg>>
    ELSE LET description == SelectOne(r.elems)
         IN  IF description # <<>>
             THEN <<TRUE, r.title, description, <<>> >>
             ELSE <<FALSE, "", "Could not find job description on Glassdoor page">>

ScrapeMonster(r) ==
    IF r.kind # "page"
    THEN <<FALSE, "", "", "Error scraping Monster: " \o r.msg>>
    ELSE LET description == SelectOne(r.elems)
         IN  IF description # <<>>
             THEN <<TRUE, r.title, description, <<>> >>
             ELSE <<FALSE, "", "Could not find job description on Monster page">>

ScrapeCareerbuilder(r) ==
    IF r.kind # "page"
    THEN <<FALSE, "", "", "Error scraping CareerBuilder: " \o r.msg>>
    ELSE LET description == SelectOne(r.elems)
         IN  IF description # <<>>
             THEN <<TRUE, r.title, description, <<>> >>
             ELSE <<FALSE, "", "Could not find job description on CareerBuilder page">>

ScrapeGeneric(r) ==
    IF r.kind # "page"
    THEN <<FALSE, "", "", "Error scraping generic page: " \o r.msg>>
    ELSE LET description == SelectorLoop(r.elems, 1, <<>>, GenericMinLength)
         IN  IF description # <<>>
             THEN <<TRUE, r.title, description, <<>> >>
             ELSE <<FALSE, "", "Could not find job description on this page">>

---------------------------------------------------------------------------
(* The dispatcher scrape_job_description *)

MaxRetries == 2

\* variant: indeed.com is tested before linkedin.com
SelectStrategy_IndeedFirst(dom) ==
    IF Contains(dom, cIndeed) THEN "indeed"
    ELSE IF Contains(dom, cLinkedin) THEN "linkedin"
    ELSE IF Contains(dom, cGlassdoor) THEN "glassdoor"
    ELSE IF Contains(dom, cMonster) THEN "monster"
    ELSE IF Contains(dom, cCareerbuilder) THEN "careerbuilder"
    ELSE "generic"

\* the if/elif chain over the lower-cased netloc
SelectStrategy(dom) ==
    IF Contains(dom, cLinkedin) THEN "linkedin"
    ELSE IF Contains(dom, cIndeed) THEN "indeed"
    ELSE IF Contains(dom, cGlassdoor) THEN "glassdoor"
    ELSE IF Contains(dom, cMonster) THEN "monster"
    ELSE IF Contains(dom, cCareerbuilder) THEN "careerbuilder"
    ELSE "generic"

\* variant: the except clause names only the exceptions of requests
ExtractorCatches_OnlyRequests(strategy, kind) == kind = "neterror"

\* the except Exception clause around the whole body of every extractor:
\* the kinds of exception it turns into a returned failure
ExtractorCatches(strategy, kind) == kind \in {"neterror", "parseerror"}

\* the value the selected extractor returns
Extract(strategy, r) ==
    CASE strategy = "linkedin" -> ScrapeLinkedin(r)
      [] strategy = "indeed" -> ScrapeIndeed(r)
      [] strategy = "glassdoor" -> ScrapeGlassdoor(r)
      [] strategy = "monster" -> ScrapeMonster(r)
      [] strategy = "careerbuilder" -> ScrapeCareerbuilder(r)
      [] OTHER -> ScrapeGeneric(r)

NoResult == <<>>

Control(p, res) == [pc |-> p, result |-> res]

\* variant: the prefix test ignores case
InvalidUrl_IgnoreCase(u) == ~StartsWith(Lower(Strip(u)), cHttp)

\* url.strip() and the startswith('http') test
InvalidUrl(u) == ~StartsWith(Strip(u), cHttp)

InvalidUrlResult == <<FALSE, "", "", "Invalid URL format">>

\* the outer except clause, reached when urlparse raises
AfterParseError(msg) ==
    Control("returned", <<FALSE, "", "", "Error parsing URL: " \o msg>>)

\* the statement after the loop
LoopExhaustedResult ==
    <<FALSE, "", "", "Failed to scrape after multiple attempts">>

\* variant: a successful first attempt does not end the loop
AfterResult_NoEarlyReturn(att, res) ==
    IF att = MaxRetries - 1 THEN Control("returned", res)
    ELSE Control("sleep", NoResult)

\* variant: the last pass gives up without looking at the value
AfterResult_LastGivesUp(att, res) ==
    IF att = MaxRetries - 1 THEN Control("returned", LoopExhaustedResult)
    ELSE IF res[1] THEN Control("returned", res)
    ELSE Control("sleep", NoResult)

\* variant: the last-attempt test is off by one
AfterResult_OffByOne(att, res) ==
    IF res[1] THEN Control("returned", res)
    ELSE IF att = MaxRetries THEN Control("returned", res)
    ELSE Control("sleep", NoResult)

\* what follows a value returned by the strategy on attempt att (from 0)
AfterResult(att, res) ==
    IF res[1] THEN Control("returned", res)
    ELSE IF att = MaxRetries - 1 THEN Control("returned", res)
    ELSE Control("sleep", NoResult)

\* variant: the last attempt's exception is raised again
AfterException_Reraise(att, msg) ==
    IF att = MaxRetries - 1 THEN Control("raised", NoResult)
    ELSE Control("sleep", NoResult)

\* variant: the last-attempt test of the except clause is off by one
AfterException_OffByOne(att, msg) ==
    IF att = MaxRetries
    THEN Control("returned",
                 <<FALSE, "", "", "Error scraping job description: " \o msg>>)
    ELSE Control("sleep", NoResult)

\* the inner except clause: what follows an exception of the strategy
AfterException(att, msg) ==
    IF att = MaxRetries - 1
    THEN Control("returned",
                 <<FALSE, "", "", "Error scraping job description: " \o msg>>)
    ELSE Control("sleep", NoResult)

Event(e, s, n) == [ev |-> e, strategy |-> s, secs |-> n]

Outcome(k, v, m) == [kind |-> k, value |-> v, msg |-> m]

---------------------------------------------------------------------------
(* The URLs a caller passes *)

Join3(a, b, c) == a \o b \o c

sHttp == cHttp \o cColon \o cSlashes
sHttps == cHttp \o <<"s">> \o cColon \o cSlashes
sHttpUpper == cHttpUpper \o cColon \o cSlashes
sFtp == cFtp \o cColon \o cSlashes
sHttpNoSlashes == cHttp \o cColon
sHttpNoColon == cHttp \o cSlashes

KnownHosts ==
    { cLinkedin, cWww \o cLinkedin, cLinkedinMixed, cIndeed, cGlassdoor,
      cMonster, cCareerbuilder, cExample,
      cIndeed \o cDot \o cLinkedin,
      cCareerbuilder \o cDot \o cGlassdoor,
      cMonster \o cDot \o cIndeed }

ValidUrls ==
    { Join3(pre, sch, h) :
        pre \in {<<>>, cSpace}, sch \in {sHttp, sHttps}, h \in KnownHosts }
    \cup
    { Join3(sHttp, h, t) :
        h \in {cExample, cIndeed},
        t \in { cSlash \o cLinkedin, cQuery \o cGlassdoor, cJobsPath \o cSpace } }
    \cup
    { Join3(sch, cLinkedin, cJobsPath) : sch \in {sHttpNoSlashes, sHttpNoColon} }
    \cup
    { Join3(sHttp, cBracket, cExample) }

InvalidUrls ==
    { Join3(pre, sch, h) :
        pre \in {<<>>, cSpace}, sch \in {sHttpUpper, sFtp, <<>>},
        h \in {cLinkedin, cExample} }
    \cup { <<>>, cSpace }

Urls == ValidUrls \cup InvalidUrls

---------------------------------------------------------------------------
(* Values of the variables of a part that does not run *)

\* None, and a value that is not None
None == <<>>
Some(x) == <<x>>

NoWorkflow ==
    /\ flow = "none"
    /\ node = 0
    /\ wstate = None
    /\ whist = <<>>

NoBatch ==
    /\ bpc = "none"
    /\ resume = None
    /\ jobs = <<>>
    /\ results = <<>>
    /\ candidateInfo = None
    /\ btrace = <<>>
    /\ summary = None
    /\ batches = 0

NoExtraction ==
    /\ doc = None
    /\ got = None

\* nothing but the part under study runs
NoOtherPart == NoWorkflow /\ NoBatch /\ NoExtraction

---------------------------------------------------------------------------
(* State machine of one call *)

Init ==
    /\ input \in Urls
    /\ url = input
    /\ pc = "start"
    /\ domain = <<>>
    /\ attempt = 0
    /\ result = NoResult
    /\ log = <<>>
    /\ outcomes = <<>>
    /\ responses = <<>>
    /\ text = <<>>
    /\ cleaned = <<>>
    /\ session = {}
    /\ history = <<>>
    /\ NoOtherPart

\* url = url.strip(); if not url.startswith('http'): return ...
ValidateUrl ==
    /\ pc = "start"
    /\ url' = Strip(url)
    /\ IF InvalidUrl(url)
       THEN /\ pc' = "returned"
            /\ result' = InvalidUrlResult
       ELSE /\ pc' = "parse"
            /\ result' = result
    /\ UNCHANGED <<input, domain, attempt, log, outcomes, responses>>
    /\ UNCHANGED <<cleanerVars, sessionVars, laterVars>>

\* parsed_url = urlparse(url); domain = parsed_url.netloc.lower()
ParseUrl ==
    /\ pc = "parse"
    /\ IF UrlparseRaises(url)
       THEN LET c == AfterParseError("Invalid IPv6 URL")
            IN  /\ pc' = c.pc
                /\ result' = c.result
                /\ domain' = domain
       ELSE /\ pc' = "attempt"
            /\ domain' = Lower(Netloc(url))
            /\ result' = result
    /\ attempt' = 0
    /\ UNCHANGED <<input, url, log, outcomes, responses>>
    /\ UNCHANGED <<cleanerVars, sessionVars, laterVars>>

\* the cookies a response can set
Cookies == {"bcookie"}

\* the Set-Cookie headers of a response: none when no response arrived
SetCookies(r) ==
    IF r.kind \in {"page", "parseerror"} THEN SUBSET Cookies ELSE {{}}

\* one pass of the retry loop for the response r that sets the cookies sc:
\* the strategy is invoked, fetches the page through self.session, which
\* keeps the cookies, and the dispatcher returns or goes on to the wait
AttemptWith(r, sc) ==
    LET strategy == SelectStrategy(domain)
        out == IF \/ r.kind = "raise"
                  \/ (r.kind # "page" /\ ~ExtractorCatches(strategy, r.kind))
               THEN Outcome("raise", NoResult, r.msg)
               ELSE Outcome("return", Extract(strategy, r), "")
        c == IF out.kind = "raise"
             THEN AfterException(attempt, out.msg)
             ELSE AfterResult(attempt, out.value)
    IN  /\ log' = log \o << Event("invoke", strategy, 0),
                            Event("get", strategy, 0) >>
        /\ outcomes' = Append(outcomes, out)
        /\ responses' = Append(responses, r)
        /\ session' = session \cup sc
        /\ pc' = c.pc
        /\ result' = c.result
        /\ UNCHANGED <<input, url, domain, attempt, history>>
        /\ UNCHANGED <<cleanerVars, laterVars>>

\* one pass of the retry loop, for any response of the transport
Attempt ==
    /\ pc = "attempt"
    /\ \E r \in Responses(SelectStrategy(domain)) :
          \E sc \in SetCookies(r) : AttemptWith(r, sc)

\* time.sleep(1), then the next pass of the loop
Sleep ==
    /\ pc = "sleep"
    /\ log' = Append(log, Event("sleep", "", 1))
    /\ attempt' = attempt + 1
    /\ IF attempt + 1 < MaxRetries
       THEN /\ pc' = "attempt"
            /\ result' = result
       ELSE /\ pc' = "returned"
            /\ result' = LoopExhaustedResult
    /\ UNCHANGED <<input, url, domain, outcomes, responses>>
    /\ UNCHANGED <<cleanerVars, sessionVars, laterVars>>

Next ==
    \/ ValidateUrl
    \/ ParseUrl
    \/ Attempt
    \/ Sleep

Spec == Init /\ [][Next]_vars

---------------------------------------------------------------------------
(* The Text Cleaner clean_description, on character sequences *)

\* [a-zA-Z0-9_], the characters \b tells apart from the others
WordChars == Range(cUpper) \cup Range(cLower) \cup Range(cDigits) \cup {"_"}

\* \b just before position i of s (i in 1..Len(s)+1)
WordBoundary(s, i) ==
    LET before == i > 1 /\ s[i - 1] \in WordChars
        after == i <= Len(s) /\ s[i] \in WordChars
    IN  before # after

\* \$[\d,]+\.?\d* at position i: the position after the match, 0 if none
AmountEnd(s, i) ==
    IF i > Len(s) \/ s[i] # "$" THEN 0
    ELSE LET a == SkipWhile(s, i + 1, Range(cDigits) \cup {","})
             b == IF a <= Len(s) /\ s[a] = "." THEN a + 1 ELSE a
         IN  IF a = i + 1 THEN 0
             ELSE SkipWhile(s, b, Range(cDigits))

\* <lit>\s*<amount>\s*-\s*<amount>\s*yr at position i
PayRangeEnd(s, i, lit) ==
    IF ~LiteralAt(s, i, lit) THEN 0
    ELSE LET a == AmountEnd(s, SkipWhile(s, i + Len(lit), Whitespace))
         IN  IF a = 0 THEN 0
             ELSE LET d == SkipWhile(s, a, Whitespace)
                  IN  IF d > Len(s) \/ s[d] # "-" THEN 0
                      ELSE LET b == AmountEnd(s, SkipWhile(s, d + 1, Whitespace))
                           IN  IF b = 0 THEN 0
                               ELSE LET y == SkipWhile(s, b, Whitespace)
                                    IN  IF LiteralAt(s, y, cYr)
                                        THEN y + Len(cYr)
                                        ELSE 0

\* ©.*?all rights reserved at position i
CopyrightEnd(s, i) ==
    IF s[i] # "©" THEN 0
    ELSE IF \E j \in (i + 1)..Len(s) : LiteralAt(s, j, cAllRightsReserved)
    THEN LET j == CHOOSE j \in (i + 1)..Len(s) :
                     /\ LiteralAt(s, j, cAllRightsReserved)
                     /\ \A k \in (i + 1)..(j - 1) :
                            ~LiteralAt(s, k, cAllRightsReserved)
         IN  IF \E k \in (i + 1)..(j - 1) : s[k] = "\n" THEN 0
             ELSE j + Len(cAllRightsReserved)
    ELSE 0

\* \b<lit>\b at position i
WordEnd(s, i, lit) ==
    IF /\ LiteralAt(s, i, lit)
       /\ WordBoundary(s, i)
       /\ WordBoundary(s, i + Len(lit))
    THEN i + Len(lit)
    ELSE 0

Pattern(k, l) == [kind |-> k, lit |-> l]

\* unwanted_patterns, in the order they are applied
UnwantedPatterns ==
    << Pattern("word", cCookie),
       Pattern("word", cPrivacyPolicy),
       Pattern("word", cTermsOfService),
       Pattern("copyright", <<>>),
       Pattern("word", cPoweredBy),
       Pattern("word", cLoadingDots),
       Pattern("payrange", cBasePayRange),
       Pattern("payrange", cPayRange) >>

\* the position after the match of pat that starts at position i, 0 if none
MatchEnd(pat, s, i) ==
    CASE pat.kind = "word" -> WordEnd(s, i, pat.lit)
      [] pat.kind = "copyright" -> CopyrightEnd(s, i)
      [] OTHER -> PayRangeEnd(s, i, pat.lit)

\* re.search(pattern, s)
Matches(pat, s) == \E i \in 1..Len(s) : MatchEnd(pat, s, i) > 0

\* re.sub(pattern, '', s) from position p on: the leftmost match is dropped
\* and the scan goes on after it
RECURSIVE RemoveFrom(_, _, _)
RemoveFrom(pat, s, p) ==
    IF \E i \in p..Len(s) : MatchEnd(pat, s, i) > 0
    THEN LET i == CHOOSE i \in p..Len(s) :
                     /\ MatchEnd(pat, s, i) > 0
                     /\ \A j \in p..(i - 1) : MatchEnd(pat, s, j) = 0
         IN  SubSeq(s, p, i - 1) \o RemoveFrom(pat, s, MatchEnd(pat, s, i))
    ELSE SubSeq(s, p, Len(s))

\* the for loop over unwanted_patterns, from pattern k on
RECURSIVE RemoveUnwanted(_, _)
RemoveUnwanted(s, k) ==
    IF k > Len(UnwantedPatterns) THEN s
    ELSE RemoveUnwanted(RemoveFrom(UnwantedPatterns[k], s, 1), k + 1)

KeepChar(c) == c # "skip"

\* re.sub(r'\s+', ' ', s)
CollapseWhitespace(s) ==
    SelectSeq([i \in DOMAIN s |->
                  IF s[i] \notin Whitespace THEN s[i]
                  ELSE IF i > 1 /\ s[i - 1] \in Whitespace THEN "skip"
                  ELSE " "],
              KeepChar)

MaxDescriptionLength == 5000

\* variant: a text of exactly the limit is cut as well
Truncate_AtLimit(d) ==
    IF Len(d) >= MaxDescriptionLength
    THEN SubSeq(d, 1, MaxDescriptionLength) \o cEllipsis
    ELSE d

\* if len(description) > 5000: description = description[:5000] + "..."
Truncate(d) ==
    IF Len(d) > MaxDescriptionLength
    THEN SubSeq(d, 1, MaxDescriptionLength) \o cEllipsis
    ELSE d

\* clean_description up to and including description.strip()
CleanedText(x) == Strip(RemoveUnwanted(CollapseWhitespace(x), 1))

CleanDescription(x) ==
    IF x = <<>> THEN <<>> ELSE Truncate(CleanedText(x))

---------------------------------------------------------------------------
(* clean_description applied to a text and again to what it returned *)

pX == <<"x">>
pSpace == <<" ">>
pNewline == <<"\n">>
pCookie == <<"c", "o", "o", "k", "i", "e">>
pCookieSpaced == <<" ", "c", "o", "o", "k", "i", "e", " ">>
pCookieCapital == <<"C", "o", "o", "k", "i", "e">>
pS == <<"s">>
pPrivacy == <<"p", "r", "i", "v", "a", "c", "y", " ">>
pPolicy == <<"p", "o", "l", "i", "c", "y">>
pCopyright == <<"©", " ", "a", "l", "l", " ", "r", "i", "g", "h", "t", "s", " ", "r", "e", "s", "e", "r", "v", "e", "d">>
pPoweredBy == <<"p", "o", "w", "e", "r", "e", "d", " ", "b", "y">>
pLoading == <<"l", "o", "a", "d", "i", "n", "g", ".", ".", ".">>
pBase == <<"b", "a", "s", "e", " ">>
pPayRange == <<"p", "a", "y", " ", "r", "a", "n", "g", "e", " ", "$", "1", ",", "0", "0", "0", ".", "5", "0", " ", "-", " ", "$", "2", " ", "y", "r">>

Pieces ==
    { pX, pSpace, pNewline, pCookie, pCookieSpaced, pCookieCapital, pS, pPrivacy,
      pPolicy, pCopyright, pPoweredBy, pLoading, pBase, pPayRange }

\* number of pieces a short text is put together from
MaxPieces == 3

RECURSIVE Flatten(_)
Flatten(ps) == IF ps = <<>> THEN <<>> ELSE Head(ps) \o Flatten(Tail(ps))

ShortTexts ==
    { Flatten(ps) : ps \in UNION { [1..n -> Pieces] : n \in 0..MaxPieces } }

cTenChars == <<"a", "b", "c", "d", "e", "f", "g", "h", "i", " ">>

\* a text of n characters of words of nine letters
LongText(n) == [i \in 1..n |-> cTenChars[((i - 1) % Len(cTenChars)) + 1]]

LongTexts ==
    { LongText(MaxDescriptionLength - 1) \o pX,
      LongText(MaxDescriptionLength + 1),
      LongText(MaxDescriptionLength + 9),
      LongText(MaxDescriptionLength - 1) \o pCookieSpaced,
      pCookie \o pSpace \o LongText(MaxDescriptionLength + 1) }

CleanInputs == ShortTexts \cup LongTexts

\* number of times clean_description is applied in a row
MaxPasses == 2

InitClean ==
    /\ text \in CleanInputs
    /\ cleaned = <<>>
    /\ input = <<>>
    /\ url = <<>>
    /\ pc = "idle"
    /\ domain = <<>>
    /\ attempt = 0
    /\ result = NoResult
    /\ log = <<>>
    /\ outcomes = <<>>
    /\ responses = <<>>
    /\ session = {}
    /\ history = <<>>
    /\ NoOtherPart

\* cleaned = clean_description(text), then clean_description(cleaned)
ApplyClean ==
    /\ pc = "idle"
    /\ Len(cleaned) < MaxPasses
    /\ cleaned' = Append(cleaned,
                         CleanDescription(IF cleaned = <<>> THEN text
                                          ELSE cleaned[Len(cleaned)]))
    /\ UNCHANGED <<text, scraperVars, sessionVars, laterVars>>

NextClean == ApplyClean

SpecClean == InitClean /\ [][NextClean]_vars

---------------------------------------------------------------------------
(* Several calls on the process-wide scraper, against sites that answer a
   request by what it carries *)

\* the URLs of the calls
SessionUrls == { sHttp \o cLinkedin, sHttp \o cIndeed, cLinkedin }

\* number of calls made on the scraper
MaxCalls == 3

\* the posting as LinkedIn serves it, and the page it serves instead of it
JobPage == LinkedinPage(tDataEngineer, D201, tAcmeCorp, <<>>, <<>>)
AuthWall == LinkedinPage(tDataEngineer, <<>>, <<>>, <<>>, <<>>)

\* the posting as the other sites serve it
SelectorJobPage ==
    Response("page", tDataEngineer,
             [i \in 1..MaxSelectors |-> IF i = 1 THEN <<D250>> ELSE <<>>],
             <<>>, tAcmeCorp, "")

\* what a site answers to a GET that carries the cookies sent: LinkedIn
\* serves the posting and sets a cookie to a visitor without one and the
\* authentication wall to a visitor with one; the other sites serve the
\* posting to everyone
Server(strategy, sent) ==
    IF strategy = "linkedin"
    THEN IF "bcookie" \in sent
         THEN [response |-> AuthWall, cookies |-> {}]
         ELSE [response |-> JobPage, cookies |-> {"bcookie"}]
    ELSE [response |-> SelectorJobPage, cookies |-> {}]

InitSession ==
    /\ input \in SessionUrls
    /\ url = input
    /\ pc = "start"
    /\ domain = <<>>
    /\ attempt = 0
    /\ result = NoResult
    /\ log = <<>>
    /\ outcomes = <<>>
    /\ responses = <<>>
    /\ text = <<>>
    /\ cleaned = <<>>
    /\ session = {}
    /\ history = <<>>
    /\ NoOtherPart

\* one pass of the retry loop: session.get sends the cookies of the session
\* and the site answers
ServedAttempt ==
    /\ pc = "attempt"
    /\ LET answer == Server(SelectStrategy(domain), session)
       IN  AttemptWith(answer.response, answer.cookies)

\* the caller's loop goes on to its next URL and calls
\* job_scraper.scrape_job_description again
NewCall ==
    /\ pc = "returned"
    /\ Len(history) + 1 < MaxCalls
    /\ history' = Append(history, [input |-> input, result |-> result])
    /\ input' \in SessionUrls
    /\ url' = input'
    /\ pc' = "start"
    /\ domain' = <<>>
    /\ attempt' = 0
    /\ result' = NoResult
    /\ log' = <<>>
    /\ outcomes' = <<>>
    /\ responses' = <<>>
    /\ UNCHANGED <<session, cleanerVars, laterVars>>

NextSession ==
    \/ ValidateUrl
    \/ ParseUrl
    \/ ServedAttempt
    \/ Sleep
    \/ NewCall

SpecSession == InitSession /\ [][NextSession]_vars

---------------------------------------------------------------------------
(* The callers' use of the returned value *)

\* success, title, description, company = job_scraper.scrape_job_description(...)
UnpackSucceeds(res) == Len(res) = 4

\* the component the batch driver and the interactive form report as the
\* failure reason: the one unpacked into description
CallerReadsError(res) == res[3]

---------------------------------------------------------------------------
(* Vocabulary of the properties *)

Returned == pc = "returned"

Invocations == { i \in DOMAIN log : log[i].ev = "invoke" }
Gets == { i \in DOMAIN log : log[i].ev = "get" }
Sleeps == { i \in DOMAIN log : log[i].ev = "sleep" }

Succeeded(o) == o.kind = "return" /\ o.value[1] = TRUE
Failed(o) == ~Succeeded(o)

\* the failure the dispatcher reports for a failed attempt
FailureOf(o) ==
    IF o.kind = "return" THEN o.value
    ELSE <<FALSE, "", "", "Error scraping job description: " \o o.msg>>

\* the input after trimming begins with 'http'
BeginsWithHttp(u) ==
    LET t == Strip(u)
    IN  /\ Len(t) >= 4
        /\ t[1] = "h" /\ t[2] = "t" /\ t[3] = "t" /\ t[4] = "p"

\* the ordered list of known sites
Sites == << cLinkedin, cIndeed, cGlassdoor, cMonster, cCareerbuilder >>
SiteNames == << "linkedin", "indeed", "glassdoor", "monster", "careerbuilder" >>

\* the first entry of the list that is a substring of host, else generic
FirstSite(host) ==
    LET hits == { i \in DOMAIN Sites : Contains(host, Sites[i]) }
    IN  IF hits = {} THEN "generic"
        ELSE SiteNames[CHOOSE i \in hits : \A j \in hits : i <= j]

---------------------------------------------------------------------------
(* Properties *)

\* C1: scrape_job_description never raises to its caller: whatever the
\* transport and the strategy do on either attempt (return, failure, raised
\* exception) and whatever urlparse does, the call never ends in a
\* propagated exception, and when it ends it has returned a result value.
C1_NeverRaises ==
    /\ pc \in {"start", "parse", "attempt", "sleep", "returned"}
    /\ Returned => (result # NoResult /\ result[1] \in BOOLEAN)

C1_Witness ==
    /\ Returned
    /\ Len(outcomes) = 2
    /\ outcomes[1].kind = "raise"
    /\ outcomes[2].kind = "raise"

\* C2: for every input that after trimming does not begin with 'http' the
\* call returns (False, "", "", "Invalid URL format") and no strategy is
\* invoked, no HTTP request is issued and no sleep happens.
C2_InvalidUrlNoNetwork ==
    (pc # "start" /\ ~BeginsWithHttp(input)) =>
        /\ Returned
        /\ result = <<FALSE, "", "", "Invalid URL format">>
        /\ log = <<>>
        /\ outcomes = <<>>

C2_Witness ==
    /\ Returned
    /\ input = cSpace \o sHttpUpper \o cLinkedin
    /\ result[4] = "Invalid URL format"

\* C3 (as claimed): every returned value has exactly four components, so
\* the callers' four-way unpacking succeeds.
C3_FourComponents == Returned => UnpackSucceeds(result)

C5_ErrorInFieldCallersRead ==
    (Returned /\ result[1] = FALSE) =>
        /\ Len(result) = 4
        /\ result[4] # ""
        /\ CallerReadsError(result) = result[4]

\* C6: within one call the strategy is invoked at most 2 times: exactly once
\* (and no wait) when the first attempt returns success=true, exactly twice
\* when the first attempt returns a failure or raises; with one GET per
\* invocation a call issues at most 2 HTTP GETs.
C6_AtMostTwoInvocations ==
    /\ Cardinality(Invocations) <= 2
    /\ Cardinality(Gets) <= 2
    /\ Cardinality(Gets) = Cardinality(Invocations)
    /\ Cardinality(Invocations) = Len(outcomes)
    /\ (Returned /\ outcomes # <<>> /\ Succeeded(outcomes[1])) =>
           (Cardinality(Invocations) = 1 /\ Sleeps = {})
    /\ (Returned /\ outcomes # <<>> /\ Failed(outcomes[1])) =>
           Cardinality(Invocations) = 2

C6_Witness ==
    /\ Returned
    /\ Len(outcomes) = 2
    /\ outcomes[1].kind = "return"
    /\ Failed(outcomes[1])
    /\ Cardinality(Gets) = 2

\* C7: if attempt 1 fails (returns success=false or raises) and attempt 2
\* returns success=true, the call returns exactly the attempt-2 result.
C7_SecondSuccessReturned ==
    (Returned /\ Len(outcomes) = 2 /\ Failed(outcomes[1])
        /\ Succeeded(outcomes[2])) =>
        result = outcomes[2].value

C7_Witness ==
    /\ Returned
    /\ Len(outcomes) = 2
    /\ outcomes[1].kind = "raise"
    /\ Succeeded(outcomes[2])
    /\ result[1] = TRUE

\* C8: if both attempts fail, each by returning success=false or by raising,
\* the call returns the failure of attempt 2 (its result, or the error built
\* from its exception message), not the failure of attempt 1.
C8_LastFailureWins ==
    (Returned /\ Len(outcomes) = 2 /\ Failed(outcomes[1])
        /\ Failed(outcomes[2])) =>
        /\ result = FailureOf(outcomes[2])
        /\ (FailureOf(outcomes[1]) # FailureOf(outcomes[2]) =>
                result # FailureOf(outcomes[1]))

C8_Witness ==
    /\ Returned
    /\ Len(outcomes) = 2
    /\ outcomes[1].kind = "return" /\ Failed(outcomes[1])
    /\ outcomes[2].kind = "raise"
    /\ FailureOf(outcomes[1]) # FailureOf(outcomes[2])

\* C9: attempts are sequential and a 1-second wait occurs exactly once
\* between a failed attempt 1 and attempt 2, whether attempt 1 returned a
\* failure or raised; there is no wait before attempt 1 or after the final
\* attempt.
C9_OneWaitBetweenAttempts ==
    /\ \A i \in Sleeps :
          /\ log[i].secs = 1
          /\ i = 3
          /\ log[1].ev = "invoke" /\ log[2].ev = "get"
          /\ Failed(outcomes[1])
    /\ Len(log) >= 4 => (3 \in Sleeps /\ log[4].ev = "invoke")
    /\ Returned => (log = <<>> \/ log[Len(log)].ev # "sleep")
    /\ (Returned /\ outcomes # <<>> /\ Failed(outcomes[1])) =>
          Cardinality(Sleeps) = 1
    /\ pc = "attempt" => Len(outcomes) = attempt

C9_Witness ==
    /\ Returned
    /\ Len(log) = 5
    /\ log[3].ev = "sleep"
    /\ outcomes[1].kind = "raise"

\* C10: the strategy is determined only by the lower-cased network location
\* of the trimmed URL: it is the first entry of the ordered list
\* linkedin.com, indeed.com, glassdoor.com, monster.com, careerbuilder.com
\* that is a substring of it, generic when none is; both attempts use the
\* same strategy, and text of the path or query does not influence it.
C10_StrategyByHost ==
    \A i \in DOMAIN log :
        log[i].ev \in {"invoke", "get"} =>
            log[i].strategy = FirstSite(Lower(Netloc(Strip(input))))

C10_Witness ==
    /\ Returned
    /\ input = sHttp \o cIndeed \o cDot \o cLinkedin
    /\ Len(log) = 5
    /\ log[1].strategy = "linkedin"
    /\ log[4].strategy = "linkedin"

\* the prefix with which each extractor reports an exception it caught
ErrorPrefix(strategy) ==
    CASE strategy = "linkedin" -> "Error scraping LinkedIn: "
      [] strategy = "indeed" -> "Error scraping Indeed: "
      [] strategy = "glassdoor" -> "Error scraping Glassdoor: "
      [] strategy = "monster" -> "Error scraping Monster: "
      [] strategy = "careerbuilder" -> "Error scraping CareerBuilder: "
      [] OTHER -> "Error scraping generic page: "

\* the strategy invoked on attempt i of the call
StrategyOf(i) == log[3 * i - 2].strategy

\* C11: no extractor raises to the dispatcher: whenever the transport fails
\* (non-2xx status, timeout, connection failure) or parsing the fetched page
\* raises, the extractor returns a result with success=false and an error
\* message made of the site's prefix and the exception's message.
C11_ExtractorsNeverRaise ==
    \A i \in DOMAIN responses :
        responses[i].kind # "raise" =>
            /\ outcomes[i].kind = "return"
            /\ responses[i].kind \in {"neterror", "parseerror"} =>
                  LET v == outcomes[i].value
                  IN  /\ Len(v) = 4
                      /\ v[1] = FALSE
                      /\ v[4] = ErrorPrefix(StrategyOf(i)) \o responses[i].msg

C11_Witness ==
    /\ Returned
    /\ Len(responses) = 2
    /\ responses[1].kind = "neterror"
    /\ responses[2].kind = "parseerror"
    /\ StrategyOf(2) = "generic"
    /\ result[4] = "Error scraping generic page: html parser error"

\* the argument of the i-th application of clean_description
CleanArgument(i) == IF i = 1 THEN text ELSE cleaned[i - 1]

\* C12 (as claimed): clean_description is idempotent: applied to its own
\* output it returns that output unchanged, for every input.
C12_Idempotent == Len(cleaned) >= 2 => cleaned[2] = cleaned[1]

\* C13: when the text left by whitespace collapsing, denylist removal and
\* trimming is longer than 5000 characters the output is its first 5000
\* characters followed by "..." (5003 characters); otherwise the output is
\* that text unchanged; the output is never longer than 5003 characters.
C13_LengthCap ==
    \A i \in DOMAIN cleaned :
        LET t == CleanedText(CleanArgument(i))
        IN  /\ Len(cleaned[i]) <= 5003
            /\ Len(t) > 5000 =>
                  /\ cleaned[i] = SubSeq(t, 1, 5000) \o <<".", ".", ".">>
                  /\ Len(cleaned[i]) = 5003
            /\ Len(t) <= 5000 => cleaned[i] = t

C13_Witness ==
    /\ Len(cleaned) >= 1
    /\ Len(text) = 5001
    /\ Len(cleaned[1]) = 5003
    /\ cleaned[1][5003] = "."

\* the denylist entries the claim names: cookie, privacy policy, terms of
\* service, the copyright footer, powered by and the two pay-range forms
NamedPatterns == {1, 2, 3, 4, 5, 7, 8}

\* C14 (as claimed): the output of clean_description contains no phrase of
\* the denylist, whatever the input.
C14_NoDenylistPhrase ==
    \A i \in DOMAIN cleaned :
        \A k \in NamedPatterns : ~Matches(UnwantedPatterns[k], cleaned[i])

\* C15: the description of every successful result the dispatcher returns
\* has been through the text cleaner: cleaning it again changes nothing, it
\* holds no denylist phrase and it has at most 5003 characters.
C15_ReturnedDescriptionCleaned ==
    (Returned /\ Len(result) = 4 /\ result[1] = TRUE) =>
        /\ CleanDescription(result[3]) = result[3]
        /\ \A k \in NamedPatterns : ~Matches(UnwantedPatterns[k], result[3])
        /\ Len(result[3]) <= MaxDescriptionLength + Len(cEllipsis)

\* the page was fetched: session.get and raise_for_status did not raise
Fetched(r) == r.kind \in {"page", "parseerror"}

\* the result carries the message about dynamic loading or restricted access
DynamicLoadingMessage(v) ==
    \E k \in 2..Len(v) : v[k] = LinkedinFailure(<<>>)[3]

\* C16 as stated: the LinkedIn extractor returns success=true exactly when
\* the description left after its cleaning step is longer than 200
\* characters, and in every other case where the page was fetched it returns
\* success=false with the message about dynamic loading or restricted access.
C16_LinkedinGate ==
    \A i \in DOMAIN responses :
        (StrategyOf(i) = "linkedin" /\ Fetched(responses[i])) =>
            /\ outcomes[i].kind = "return"
            /\ outcomes[i].value[1] = TRUE <=> Len(responses[i].cleaned) > 200
            /\ outcomes[i].value[1] = FALSE =>
                  DynamicLoadingMessage(outcomes[i].value)

\* C16 amended: when the extraction of a fetched LinkedIn page runs to its
\* end, success=true is returned exactly when the cleaned description is
\* longer than 200 characters and otherwise success=false with the message
\* about dynamic loading or restricted access; when the extraction raises
\* after the fetch, success=false is returned with the message
\* 'Error scraping LinkedIn: ' followed by the exception's message.
C16_LinkedinGateUnlessRaised ==
    \A i \in DOMAIN responses :
        (StrategyOf(i) = "linkedin" /\ Fetched(responses[i])) =>
            LET r == responses[i]
                v == outcomes[i].value
            IN  /\ outcomes[i].kind = "return"
                /\ (r.kind = "page" /\ Len(r.cleaned) > 200) =>
                      /\ v[1] = TRUE
                      /\ v[3] = r.cleaned
                /\ (r.kind = "page" /\ Len(r.cleaned) <= 200) =>
                      /\ v[1] = FALSE
                      /\ DynamicLoadingMessage(v)
                /\ r.kind = "parseerror" =>
                      /\ v[1] = FALSE
                      /\ ~DynamicLoadingMessage(v)
                      /\ v[4] = "Error scraping LinkedIn: " \o r.msg

C16_Witness ==
    /\ Len(responses) = 2
    /\ StrategyOf(1) = "linkedin"
    /\ responses[1].kind = "page"
    /\ Len(responses[1].cleaned) = 200
    /\ outcomes[1].value[1] = FALSE
    /\ responses[2].kind = "page"
    /\ Len(responses[2].cleaned) = 201
    /\ outcomes[2].value[1] = TRUE

\* the texts of the elements the description selectors of a page matched
MatchedTexts(r) ==
    { r.elems[k][1] : k \in { j \in DOMAIN r.elems : r.elems[j] # <<>> } }

\* C17: the Indeed extractor enforces its minimum length: whenever it
\* returns success=true the description is the text of a selector match
\* longer than 100 characters, and when every matched description element
\* has 100 characters or fewer it returns success=false.
C17_IndeedMinLength ==
    \A i \in DOMAIN responses :
        (StrategyOf(i) = "indeed" /\ responses[i].kind = "page") =>
            LET r == responses[i]
                v == outcomes[i].value
            IN  /\ v[1] = TRUE =>
                      /\ v[3] \in MatchedTexts(r)
                      /\ Len(v[3]) > 100
                /\ (\A t \in MatchedTexts(r) : Len(t) <= 100) => v[1] = FALSE

\* the selectors of a page whose match has more than min characters
LongMatches(r, min) ==
    { k \in DOMAIN r.elems : r.elems[k] # <<>> /\ Len(r.elems[k][1]) > min }

\* C18: the description the generic extractor returns is the text of the
\* first element, in description-selector order, whose text exceeds 100
\* characters; an element of 100 characters or fewer is never the returned
\* description, and the company of every generic result is empty.
C18_GenericFirstLongElement ==
    \A i \in DOMAIN responses :
        (StrategyOf(i) = "generic" /\ responses[i].kind = "page"
            /\ outcomes[i].value[1] = TRUE) =>
            LET r == responses[i]
                v == outcomes[i].value
                long == LongMatches(r, 100)
            IN  /\ long # {}
                /\ v[3] = r.elems[CHOOSE k \in long : \A j \in long : k <= j][1]
                /\ Len(v[3]) > 100
                /\ v[4] = <<>>

\* the positions where sep occurs in s
Occurrences(s, sep) ==
    { i \in 1..Len(s) : i + Len(sep) - 1 <= Len(s)
                          /\ SubSeq(s, i, i + Len(sep) - 1) = sep }

First(ps) == CHOOSE i \in ps : \A j \in ps : i <= j

\* the part of s before the first sep, all of s when there is none
BeforeFirst(s, sep) ==
    IF Occurrences(s, sep) = {} THEN s
    ELSE SubSeq(s, 1, First(Occurrences(s, sep)) - 1)

\* the part of s after the first sep
AfterFirst(s, sep) ==
    SubSeq(s, First(Occurrences(s, sep)) + Len(sep), Len(s))

\* the company the three title formats give, in the order
\* '<Company> hiring <Title>', '<Title> - <Company>', '<Title> at <Company>',
\* the first format that applies deciding
TitleCompany(tt) ==
    IF Occurrences(tt, cHiringSep) # {} THEN BeforeFirst(tt, cHiringSep)
    ELSE IF Occurrences(tt, cDashSep) # {}
    THEN BeforeFirst(BeforeFirst(AfterFirst(tt, cDashSep), cDashSep), cBarSep)
    ELSE IF Occurrences(tt, cAtSep) # {}
    THEN BeforeFirst(BeforeFirst(AfterFirst(tt, cAtSep), cAtSep), cBarSep)
    ELSE <<>>

\* a name the clean-up of the company leaves as it is
PlainName(c) ==
    /\ Len(c) >= 3
    /\ \A k \in DOMAIN UiTextPatterns, i \in 1..Len(c) :
          UiMatchEnd(UiTextPatterns[k], c, i) = 0
    /\ \A w \in SuspiciousWords : ~Contains(Lower(c), w)

\* a text the company selector loop accepts: more than 2 and fewer than
\* 100 characters
AcceptedCompany(c) == Len(c) > 2 /\ Len(c) < 100

\* C19: in the LinkedIn extractor, when no company selector yields a
\* company, the company is recovered from the page <title> by the formats
\* '<Company> hiring <Title>', '<Title> - <Company>' and
\* '<Title> at <Company>', tried in this order, the first that applies
\* deciding; for the title 'Acme Corp hiring Backend Engineer in Remote |
\* LinkedIn' the returned company is 'Acme Corp'.
C19_CompanyFromPageTitle ==
    \A i \in DOMAIN responses :
        LET r == responses[i]
            v == outcomes[i].value
        IN  (/\ StrategyOf(i) = "linkedin"
             /\ r.kind = "page"
             /\ ~AcceptedCompany(r.company)
             /\ r.ptitle # <<>>
             /\ v[1] = TRUE) =>
                /\ PlainName(TitleCompany(r.ptitle[1])) =>
                      v[4] = TitleCompany(r.ptitle[1])
                /\ r.ptitle[1] = ptHiring => v[4] = tAcmeCorp

\* C19, the part the code keeps: when the selector loop leaves the company
\* empty, the three formats are tried in the order stated and the example
\* title gives 'Acme Corp'.
C19_EmptyCompanyFromPageTitle ==
    \A i \in DOMAIN responses :
        LET r == responses[i]
            v == outcomes[i].value
        IN  (/\ StrategyOf(i) = "linkedin"
             /\ r.kind = "page"
             /\ r.company = <<>>
             /\ r.ptitle # <<>>
             /\ v[1] = TRUE) =>
                /\ PlainName(TitleCompany(r.ptitle[1])) =>
                      v[4] = TitleCompany(r.ptitle[1])
                /\ r.ptitle[1] = ptHiring => v[4] = tAcmeCorp
                /\ r.ptitle[1] = ptDash => v[4] = tAcmeCorp
                /\ r.ptitle[1] = ptAt => v[4] = tAcmeCorp
                /\ r.ptitle[1] = ptAllThree => v[4] = tGlobex
                /\ r.ptitle[1] = ptDashAt => v[4] = tGlobex

\* C20: scrapes are independent and stateless: no state written during one
\* call on the shared scraper and its HTTP session is left to be read by a
\* later call, and a call returns for a URL what every earlier call returned
\* for it when the sites answer equal requests equally.
C20_CallsIndependent ==
    /\ pc = "start" => session = {}
    /\ Returned =>
          \A i \in DOMAIN history :
              history[i].input = input => history[i].result = result

---------------------------------------------------------------------------
(* The screening workflows: the nodes of simple_resume_screener.py, run by
   the batch driver, and the analysis nodes of resume_screener.py *)

\* a ResumeScreeningState; the fields of both workflows
WState(link, content, name, type, description, u, rtext) ==
    [link |-> link, file_content |-> content, file_name |-> name,
     file_type |-> type, job_description |-> description, job_url |-> u,
     resume_text |-> rtext, screening_results |-> None,
     candidate_info |-> None, spreadsheet_data |-> None, error |-> None]

\* state.get("error") is truthy
HasError(s) == s.error # None /\ s.error[1] # ""

\* what the operation a node wraps did: its value, or the exception raised
Done(v) == [ok |-> TRUE, value |-> Some(v), msg |-> ""]
Raised(m) == [ok |-> FALSE, value |-> None, msg |-> m]

RECURSIVE Join(_, _)
\* sep.join(list)
Join(list, sep) ==
    IF list = <<>> THEN ""
    ELSE IF Len(list) = 1 THEN list[1]
    ELSE list[1] \o sep \o Join(Tail(list), sep)

\* list[:n]
Take(list, n) == SubSeq(list, 1, IF Len(list) < n THEN Len(list) ELSE n)

\* FileProcessorNode.__call__ of simple_resume_screener.py
ProcessFileNode(s, e) ==
    IF s.file_content # ""
    THEN [s EXCEPT !.error = None]
    ELSE IF s.link = ""
    THEN [s EXCEPT !.error =
              Some("No file content or Google Drive link provided")]
    ELSE IF e.ok
    THEN [s EXCEPT !.file_content = e.value[1].content,
                   !.file_name = "resume." \o e.value[1].type,
                   !.file_type = e.value[1].type,
                   !.error = None]
    ELSE [s EXCEPT !.error = Some("Error processing file: " \o e.msg)]

SupportedTypes == {"pdf", "docx", "txt"}

\* TextExtractorNode.__call__ of simple_resume_screener.py
ExtractTextNode(s, e) ==
    IF HasError(s) THEN s
    ELSE IF ~e.ok
    THEN [s EXCEPT !.error = Some("Error extracting text: " \o e.msg)]
    ELSE IF s.file_type \notin SupportedTypes
    THEN [s EXCEPT !.error =
              Some("Unsupported file type: " \o s.file_type
                      \o ". Supported: PDF, DOCX, TXT")]
    ELSE [s EXCEPT !.resume_text = Some(Strip(e.value[1])), !.error = None]

\* ResumeScreenerNode.__call__
ScreenResumeNode(s, e) ==
    IF HasError(s) THEN s
    ELSE IF e.ok
    THEN [s EXCEPT !.screening_results = Some(e.value[1]), !.error = None]
    ELSE [s EXCEPT !.error = Some("Error in resume screening: " \o e.msg)]

\* variant: the node runs whatever the error field holds
ExtractInfoNode_NoGuard(s, e) ==
    IF e.ok
    THEN [s EXCEPT !.candidate_info = Some(e.value[1]), !.error = None]
    ELSE [s EXCEPT !.error =
              Some("Error extracting candidate info: " \o e.msg)]

\* InfoExtractorNode.__call__
ExtractInfoNode(s, e) ==
    IF HasError(s) THEN s
    ELSE IF e.ok
    THEN [s EXCEPT !.candidate_info = Some(e.value[1]), !.error = None]
    ELSE [s EXCEPT !.error =
              Some("Error extracting candidate info: " \o e.msg)]

\* the subscripts the dict literal of DataExporterNode evaluates, in order,
\* in simple_resume_screener.py and in resume_screener.py
ExportAccesses(f) ==
    IF f = "simple"
    THEN << <<"screening_results", "overall_fit_rating">>,
            <<"candidate_info", "first_name">>,
            <<"candidate_info", "last_name">>,
            <<"candidate_info", "email_address">>,
            <<"screening_results", "risk_factor">>,
            <<"screening_results", "reward_factor">>,
            <<"screening_results", "candidate_strengths">>,
            <<"screening_results", "candidate_weaknesses">>,
            <<"screening_results", "justification_for_rating">> >>
    ELSE << <<"candidate_info", "first_name">>,
            <<"candidate_info", "last_name">>,
            <<"candidate_info", "email_address">>,
            <<"screening_results", "candidate_strengths">>,
            <<"screening_results", "candidate_weaknesses">>,
            <<"screening_results", "risk_factor">>,
            <<"screening_results", "reward_factor">>,
            <<"screening_results", "justification_for_rating">>,
            <<"screening_results", "overall_fit_rating">> >>

\* the subscript a[1][a[2]] of the state raises
AccessFails(s, a) == s[a[1]] = None \/ a[2] \notin DOMAIN s[a[1]][1]

\* str(e) of the exception DataExporterNode catches, "" when none is raised
ExportFailure(f, s) ==
    LET acc == ExportAccesses(f)
        bad == { i \in DOMAIN acc : AccessFails(s, acc[i]) }
    IN  IF bad = {} THEN ""
        ELSE LET a == acc[CHOOSE i \in bad : \A j \in bad : i <= j]
             IN  IF s[a[1]] = None
                 THEN "'NoneType' object is not subscriptable"
                 ELSE "'" \o a[2] \o "'"

\* DataExporterNode._get_recommendation
GetRecommendation(fit_score) ==
    IF fit_score >= 9 THEN "Strong Yes"
    ELSE IF fit_score >= 7 THEN "Yes"
    ELSE IF fit_score >= 5 THEN "Maybe"
    ELSE IF fit_score >= 3 THEN "No"
    ELSE "Strong No"

\* the spreadsheet_data of simple_resume_screener.py, without the analysis
\* date and the entries guessed from the words of the job description and of
\* the weaknesses; the bullet of the two "Top 3" separators is written -
SimpleSpreadsheet(s) ==
    LET r == s.screening_results[1]
        c == s.candidate_info[1]
    IN  ("Job URL" :> s.job_url)
        @@ ("Candidate Name" :> c.first_name \o " " \o c.last_name)
        @@ ("Candidate Email" :> c.email_address)
        @@ ("Resume File" :> s.file_name)
        @@ ("Overall Fit Score" :> r.overall_fit_rating)
        @@ ("Risk Level" :> r.risk_factor.score)
        @@ ("Reward Level" :> r.reward_factor.score)
        @@ ("Recommendation" :> GetRecommendation(r.overall_fit_rating))
        @@ ("Top 3 Strengths" :> Join(Take(r.candidate_strengths, 3), "\n- "))
        @@ ("Top 3 Concerns" :> Join(Take(r.candidate_weaknesses, 3), "\n- "))
        @@ ("Risk Explanation" :> r.risk_factor.explanation)
        @@ ("Reward Explanation" :> r.reward_factor.explanation)
        @@ ("Detailed Justification" :> r.justification_for_rating)
        @@ ("Job Description Length" :> Len(s.job_description))
        @@ ("All Strengths" :> Join(r.candidate_strengths, "\n\n"))
        @@ ("All Weaknesses" :> Join(r.candidate_weaknesses, "\n\n"))

\* the spreadsheet_data of resume_screener.py, without the date
DriveSpreadsheet(s) ==
    LET r == s.screening_results[1]
        c == s.candidate_info[1]
    IN  ("Resume" :> s.link)
        @@ ("First Name" :> c.first_name)
        @@ ("Last Name" :> c.last_name)
        @@ ("Email" :> c.email_address)
        @@ ("Strengths" :> Join(r.candidate_strengths, "\n\n"))
        @@ ("Weaknesses" :> Join(r.candidate_weaknesses, "\n\n"))
        @@ ("Risk Factor" :>
               r.risk_factor.score \o "\n\n" \o r.risk_factor.explanation)
        @@ ("Reward Factor" :>
               r.reward_factor.score \o "\n\n" \o r.reward_factor.explanation)
        @@ ("Justification" :> r.justification_for_rating)
        @@ ("Overall Fit" :> r.overall_fit_rating)

\* variant: the node clears the resume text it was given
PrepareExportNode_DropsText(f, s) ==
    IF HasError(s) THEN s
    ELSE IF ExportFailure(f, s) # ""
    THEN [s EXCEPT !.error =
              Some("Error preparing export data: " \o ExportFailure(f, s))]
    ELSE [s EXCEPT !.spreadsheet_data =
                       Some(IF f = "simple" THEN SimpleSpreadsheet(s)
                            ELSE DriveSpreadsheet(s)),
                   !.resume_text = None,
                   !.error = None]

\* DataExporterNode.__call__ of workflow f
PrepareExportNode(f, s) ==
    IF HasError(s) THEN s
    ELSE IF ExportFailure(f, s) # ""
    THEN [s EXCEPT !.error =
              Some("Error preparing export data: " \o ExportFailure(f, s))]
    ELSE [s EXCEPT !.spreadsheet_data =
                       Some(IF f = "simple" THEN SimpleSpreadsheet(s)
                            ELSE DriveSpreadsheet(s)),
                   !.error = None]

\* the scraper, the cleaner and the session are not in use
NoScraping ==
    /\ input = <<>> /\ url = <<>> /\ pc = "idle" /\ domain = <<>>
    /\ attempt = 0 /\ result = NoResult /\ log = <<>> /\ outcomes = <<>>
    /\ responses = <<>> /\ text = <<>> /\ cleaned = <<>>
    /\ session = {} /\ history = <<>>

wJob == <<"j", "o", "b">>
wUrl == <<"h", "t", "t", "p">>
wResume == <<" ", "c", "v", " ">>

\* a screening report with every field of the prompt's schema
FullResults(rating) ==
    [candidate_strengths |-> <<"Python", "Cloud", "SQL", "Go">>,
     candidate_weaknesses |-> <<"LangChain">>,
     risk_factor |-> [score |-> "Low", explanation |-> "Good background"],
     reward_factor |-> [score |-> "High", explanation |-> "Strong potential"],
     overall_fit_rating |-> rating,
     justification_for_rating |-> "Strong technical skills"]

\* a report the model wrote without the rating
NoRatingResults ==
    [candidate_strengths |-> <<"Python">>,
     candidate_weaknesses |-> <<"LangChain">>,
     risk_factor |-> [score |-> "Low", explanation |-> "Good background"],
     reward_factor |-> [score |-> "High", explanation |-> "Strong potential"],
     justification_for_rating |-> "Strong technical skills"]

JohnSmith ==
    [first_name |-> "John", last_name |-> "Smith",
     email_address |-> "john.smith@email.com"]

\* contact information without the e-mail address
NoEmailInfo == [first_name |-> "John", last_name |-> "Smith"]

DownloadOutcomes ==
    {Done([content |-> "bytes", type |-> "pdf"]),
     Done([content |-> "bytes", type |-> "bin"]),
     Raised("Failed to download from Google Drive: 404")}
TextOutcomes == {Done(wResume), Done(<<>>), Raised("")}
ScreenOutcomes ==
    {Done(FullResults(8)), Done(FullResults(4)), Done(NoRatingResults),
     Raised("Could not parse JSON response")}
InfoOutcomes ==
    {Done(JohnSmith), Done(NoEmailInfo),
     Raised("Could not parse candidate info")}

\* the initial states workflow.invoke is given (simple_resume_screener.py),
\* and the states the analysis nodes of resume_screener.py are called on
InitialStates(f, n) ==
    IF f = "simple"
    THEN { WState(l, c[1], c[2], c[3], wJob, wUrl, None) :
             l \in {"", "drive"},
             c \in {<<"", "", "">>, <<"bytes", "cv.pdf", "pdf">>,
                    <<"bytes", "cv.odt", "odt">>} }
    ELSE IF n = 3
    THEN { WState("drive", "", "cv.pdf", "pdf", wJob, <<>>, Some(wResume)) }
    ELSE { [WState("drive", "", "cv.pdf", "pdf", wJob, <<>>, Some(wResume))
               EXCEPT !.screening_results = Some(r),
                      !.candidate_info = Some(c)] :
             r \in {FullResults(8), NoRatingResults},
             c \in {JohnSmith, NoEmailInfo} }

InitWorkflow ==
    /\ NoScraping /\ NoBatch /\ NoExtraction
    /\ \E f \in {"simple", "drive"} :
         \E n \in (IF f = "simple" THEN {1} ELSE {3, 5}) :
            /\ flow = f
            /\ node = n
            /\ \E s \in InitialStates(f, n) : wstate = Some(s)
    /\ whist = <<>>

\* the node at position n returned `after`; the edge leads to position n + 1
Step(n, after, e) ==
    /\ wstate' = Some(after)
    /\ whist' = Append(whist, [node |-> n, before |-> wstate[1],
                               after |-> after, ok |-> e.ok])
    /\ node' = n + 1
    /\ UNCHANGED <<flow, scraperVars, cleanerVars, sessionVars, batchVars,
                   linkedinVars>>

ProcessFile ==
    /\ node = 1
    /\ \E e \in DownloadOutcomes : Step(1, ProcessFileNode(wstate[1], e), e)

ExtractText ==
    /\ node = 2
    /\ \E e \in TextOutcomes : Step(2, ExtractTextNode(wstate[1], e), e)

ScreenResume ==
    /\ node = 3
    /\ \E e \in ScreenOutcomes : Step(3, ScreenResumeNode(wstate[1], e), e)

ExtractInfo ==
    /\ node = 4
    /\ \E e \in InfoOutcomes : Step(4, ExtractInfoNode(wstate[1], e), e)

PrepareExport ==
    /\ node = 5
    /\ Step(5, PrepareExportNode(flow, wstate[1]), Done(""))

NextWorkflow ==
    \/ ProcessFile
    \/ ExtractText
    \/ ScreenResume
    \/ ExtractInfo
    \/ PrepareExport

SpecWorkflow == InitWorkflow /\ [][NextWorkflow]_vars

---------------------------------------------------------------------------
(* C23 *)

\* the runs of the exporter of resume_screener.py recorded so far
ExporterRuns ==
    { i \in DOMAIN whist : flow = "drive" /\ whist[i].node = 5 }

\* the state holds no error, a screening report and contact information
Populated(s) ==
    /\ ~HasError(s)
    /\ s.screening_results # None
    /\ s.candidate_info # None

\* the report and the contact information hold every key the exporter reads
CarriesSchema(s) ==
    /\ Populated(s)
    /\ {"candidate_strengths", "candidate_weaknesses", "risk_factor",
        "reward_factor", "overall_fit_rating", "justification_for_rating"}
          \subseteq DOMAIN s.screening_results[1]
    /\ {"first_name", "last_name", "email_address"}
          \subseteq DOMAIN s.candidate_info[1]

\* the exporter returned the state with error unset, the spreadsheet row
\* carrying the rating, and every other field as it was
Exported(before, after) ==
    /\ after.error = None
    /\ after.spreadsheet_data # None
    /\ after.spreadsheet_data[1]["Overall Fit"]
          = before.screening_results[1].overall_fit_rating
    /\ after = [before EXCEPT !.spreadsheet_data = after.spreadsheet_data,
                              !.error = None]

\* the operation of the recorded step ran to its end on a state without error
StepSucceeded(h) ==
    /\ ~HasError(h.before)
    /\ h.ok
    /\ h.node = 5 => ExportFailure(flow, h.before) = ""

---------------------------------------------------------------------------
(* C28 *)

\* the recorded steps that returned a state holding an error
FailedSteps == { i \in DOMAIN whist : HasError(whist[i].after) }

\* C28: in the workflow of simple_resume_screener.py, once a node has set
\* error every later node returns the state it was given unchanged, so the
\* final error is the first error and no later node sets resume_text,
\* screening_results, candidate_info or spreadsheet_data.
C28_ShortCircuit ==
    flow = "simple" =>
       \A i \in FailedSteps :
          /\ \A j \in DOMAIN whist :
                j > i => whist[j].after = whist[j].before
          /\ wstate[1].error = whist[i].after.error
          /\ \A k \in {"resume_text", "screening_results", "candidate_info",
                       "spreadsheet_data"} :
                wstate[1][k] = whist[i].after[k]

\* the text extraction failed and the three later nodes ran
C28_Witness ==
    /\ flow = "simple"
    /\ Len(whist) = 5
    /\ ~HasError(whist[1].after)
    /\ HasError(whist[2].after)
    /\ wstate[1].error = whist[2].after.error
    /\ wstate[1].screening_results = None

---------------------------------------------------------------------------
(* The batch driver: BatchResumeScreener of batch_resume_screener.py *)

\* the most job URLs of one batch, and the most calls on one instance
MaxJobs == 2
MaxBatches == 2

\* what the strategy did with the response r: a value, or an exception
AttemptOutcome(strategy, r) ==
    IF \/ r.kind = "raise"
       \/ (r.kind # "page" /\ ~ExtractorCatches(strategy, r.kind))
    THEN Outcome("raise", NoResult, r.msg)
    ELSE Outcome("return", Extract(strategy, r), "")

\* what the dispatcher does next on attempt att
AttemptControl(att, out) ==
    IF out.kind = "raise" THEN AfterException(att, out.msg)
    ELSE AfterResult(att, out.value)

RECURSIVE RunFrom(_, _, _, _)
RECURSIVE Continue(_, _, _, _, _)
\* the retry loop of scrape_job_description from attempt att on, for the
\* responses rs of the transport: the requests and waits, and the value
RunFrom(att, dom, rs, events) ==
    Continue(att, dom, rs,
             Append(events, Event("get", SelectStrategy(dom), 0)),
             AttemptControl(att, AttemptOutcome(SelectStrategy(dom),
                                                rs[att + 1])))

\* the end of one pass: return, or wait and go round again
Continue(att, dom, rs, sent, c) ==
    IF c.pc # "sleep" THEN [events |-> sent, value |-> c.result]
    ELSE IF att + 1 < MaxRetries
    THEN RunFrom(att + 1, dom, rs, Append(sent, Event("sleep", "", 1)))
    ELSE [events |-> Append(sent, Event("sleep", "", 1)),
          value |-> LoopExhaustedResult]

\* job_scraper.scrape_job_description(u) as one call
ScrapeCall(u, rs) ==
    IF InvalidUrl(u) THEN [events |-> <<>>, value |-> InvalidUrlResult]
    ELSE IF UrlparseRaises(Strip(u))
    THEN [events |-> <<>>, value |-> AfterParseError("Invalid IPv6 URL").result]
    ELSE RunFrom(0, Lower(Netloc(Strip(u))), rs, <<>>)

\* simple_resume_screening_workflow.invoke: the five nodes along the edges
Invoke(s, e) ==
    PrepareExportNode("simple",
        ExtractInfoNode(
            ScreenResumeNode(
                ExtractTextNode(ProcessFileNode(s, e[1]), e[2]), e[3]), e[4]))

\* the test of line 72: empty, blank, or not starting with 'http'
SkippedUrl(u) == u = <<>> \/ Strip(u) = <<>> \/ ~StartsWith(u, cHttp)

FailureRow(u, status, error) ==
    ("Job URL" :> u) @@ ("Status" :> status) @@ ("Error" :> error)

\* what one pass of the loop did
Pass(rows, events, info) == [rows |-> rows, events |-> events, info |-> info]

\* variant: a URL that fails the test is skipped without a row
InvalidUrlPass_NoRow(u) == Pass(<<>>, <<>>, None)

\* the branch of line 72: a row for the URL, and on to the next URL
InvalidUrlPass(u) ==
    Pass(<<FailureRow(u, "Invalid URL", "URL is empty or invalid")>>,
         <<>>, None)

\* lines 121-145: the row for the state s the workflow returned
AfterInvoke(u, call, s) ==
    IF HasError(s)
    THEN Pass(<<FailureRow(u, "Processing error", s.error[1])>>,
              call.events, None)
    ELSE Pass(<<("Company" :> call.value[4]) @@ ("Job Title" :> call.value[2])
                   @@ s.spreadsheet_data[1]>>,
              Append(call.events, Event("sleep", "", 1)),
              s.candidate_info)

\* lines 84-119: the value of the scraper is unpacked and, for a success,
\* the workflow is run on the cleaned description
AfterScrape(file, u, call, e) ==
    IF Len(call.value) # 4
    THEN Pass(<<FailureRow(u, "Exception",
                  "not enough values to unpack (expected 4, got 3)")>>,
              call.events, None)
    ELSE IF ~call.value[1]
    THEN Pass(<<FailureRow(u, "Failed to scrape", call.value[3])>>,
              call.events, None)
    ELSE AfterInvoke(u, call,
            Invoke(WState("", file.content, file.name, file.type,
                          CleanDescription(call.value[3]), u, None), e))

\* the body of the loop over job_urls for the URL u, the responses rs of the
\* transport and the outcomes e of the operations of the workflow's nodes
ProcessUrl(file, u, rs, e) ==
    IF SkippedUrl(u) THEN InvalidUrlPass(u)
    ELSE AfterScrape(file, u, ScrapeCall(u, rs), e)

\* rows that carry the key k
Carrying(rows, k) == { i \in DOMAIN rows : k \in DOMAIN rows[i] }

\* variant: only the rows of failed scrapes are counted as failed
CreateSummary_ScrapeFailuresOnly(rows, info) ==
    [total_jobs |-> Len(rows),
     successful |-> Cardinality(Carrying(rows, "Overall Fit Score")),
     failed |-> Cardinality({ i \in Carrying(rows, "Status") :
                                rows[i]["Status"] = "Failed to scrape" }),
     candidate_info |-> info]

\* _create_summary, without the score statistics and the recommendations
CreateSummary(rows, info) ==
    [total_jobs |-> Len(rows),
     successful |-> Cardinality(Carrying(rows, "Overall Fit Score")),
     failed |-> Cardinality({ i \in Carrying(rows, "Status") :
                                rows[i]["Status"] # "Success" }),
     candidate_info |-> info]

\* the resume files: name, extension after lower(), content
Resumes ==
    { [name |-> "ann.pdf", ext |-> "pdf", content |-> "ann"],
      [name |-> "bob.doc", ext |-> "doc", content |-> "bob"],
      [name |-> "cv.odt", ext |-> "odt", content |-> "cv"] }

\* the if/elif chain over the extension; "" where the code raises ValueError
FileType(ext) ==
    IF ext = "pdf" THEN "pdf"
    ELSE IF ext \in {"docx", "doc"} THEN "docx"
    ELSE IF ext = "txt" THEN "txt"
    ELSE ""

AnnLee ==
    [first_name |-> "Ann", last_name |-> "Lee",
     email_address |-> "ann@lee.org"]
ALee ==
    [first_name |-> "A.", last_name |-> "Lee",
     email_address |-> "ann@lee.org"]
BobRay ==
    [first_name |-> "Bob", last_name |-> "Ray",
     email_address |-> "bob@ray.org"]

\* the contact information the model can read out of a resume
InfosOf(content) == IF content = "ann" THEN {AnnLee, ALee} ELSE {BobRay}

\* the outcomes of the operations of the four later nodes for one job
Analyses(content) ==
    { <<Done([content |-> "", type |-> ""]), Done(wResume),
        Done(FullResults(8)), Done(c)>> : c \in InfosOf(content) }
    \cup { <<Done([content |-> "", type |-> ""]), Done(wResume),
             Raised("Could not parse JSON response"), Done(AnnLee)>> }

uLinkedin == sHttp \o cLinkedin
uLinkedinJobs == sHttp \o cLinkedin \o cJobsPath
uBracket == sHttp \o cBracket \o cExample
JobUrls == {<<>>, cSpace \o uLinkedin, uLinkedin, uLinkedinJobs}

JobLists == UNION { [1..n -> JobUrls] : n \in 0..MaxJobs }

bJobPage == LinkedinPage(tDataEngineer, D201, tAcmeCorp, <<>>, <<>>)
bShortPage == LinkedinPage(tDataEngineer, D200, tAcmeCorp, <<>>, <<>>)
bTimeout == NoPage("neterror", "timed out")

\* the responses of the transport to the requests of one job, and the
\* outcomes of the analysis that follows a successful scrape
JobRuns(content) ==
    { <<rs, e>> : rs \in {<<bJobPage, bJobPage>>},
                  e \in Analyses(content) }
    \cup { <<rs, CHOOSE e \in Analyses(content) : TRUE>> :
              rs \in {<<bShortPage, bShortPage>>, <<bTimeout, bTimeout>>,
                      <<bTimeout, bJobPage>>} }

\* file_name, file_type and file_content of a resume file
Opened(file) ==
    [name |-> file.name, type |-> FileType(file.ext),
     content |-> file.content]

\* the passes of the loop for each file, URL and run, computed once
Passes ==
    UNION { { [file |-> Opened(file), url |-> u,
               pass |-> ProcessUrl(Opened(file), u, run[1], run[2])] :
                 u \in JobUrls, run \in JobRuns(file.content) } :
            file \in { f \in Resumes : FileType(f.ext) # "" } }

\* BatchResumeScreener(): no results, no candidate information
InitBatch ==
    /\ NoScraping /\ NoWorkflow /\ NoExtraction
    /\ bpc = "idle"
    /\ resume = None
    /\ jobs = <<>>
    /\ results = <<>>
    /\ candidateInfo = None
    /\ btrace = <<>>
    /\ summary = None
    /\ batches = 0

otherVars == <<scraperVars, cleanerVars, sessionVars, workflowVars,
               linkedinVars>>

\* process_resume_against_jobs up to the loop: the file is read, its type
\* mapped, and resume_file_name and results are reset
StartBatch ==
    /\ bpc = "idle"
    /\ batches < MaxBatches
    /\ \E file \in Resumes, urls \in JobLists :
          /\ batches' = batches + 1
          /\ summary' = None
          /\ IF FileType(file.ext) = ""
             THEN /\ bpc' = "idle"
                  /\ UNCHANGED <<resume, jobs, results, btrace>>
             ELSE /\ bpc' = "loop"
                  /\ resume' = Some(Opened(file))
                  /\ jobs' = urls
                  /\ results' = <<>>
                  /\ btrace' = <<>>
    /\ UNCHANGED <<candidateInfo, otherVars>>

\* one pass of the loop over job_urls
ProcessJob ==
    /\ bpc = "loop"
    /\ Len(btrace) < Len(jobs)
    /\ \E p \in Passes :
          /\ p.file = resume[1]
          /\ p.url = jobs[Len(btrace) + 1]
          /\ results' = results \o p.pass.rows
          /\ candidateInfo' = IF p.pass.info # None /\ candidateInfo = None
                              THEN p.pass.info ELSE candidateInfo
          /\ btrace' = Append(btrace, [url |-> p.url,
                                       events |-> p.pass.events,
                                       info |-> p.pass.info])
    /\ UNCHANGED <<bpc, resume, jobs, summary, batches, otherVars>>

\* the statements after the loop: the summary is created and returned
Finish ==
    /\ bpc = "loop"
    /\ Len(btrace) = Len(jobs)
    /\ summary' = Some(CreateSummary(results, candidateInfo))
    /\ bpc' = "idle"
    /\ UNCHANGED <<resume, jobs, results, candidateInfo, btrace, batches,
                   otherVars>>

NextBatch ==
    \/ StartBatch
    \/ ProcessJob
    \/ Finish

SpecBatch == InitBatch /\ [][NextBatch]_vars

---------------------------------------------------------------------------
(* C21, C22, C29, C30 *)

\* the call has returned its summary
BatchReturned == summary # None

\* C21: the batch driver produces exactly one result row per job URL, in
\* input order: when process_resume_against_jobs has returned, results has
\* as many entries as there were URLs and entry i holds URL i; during the
\* loop there is one row for every URL passed.
C21_OneRowPerUrl ==
    /\ bpc = "loop" =>
          /\ Len(results) = Len(btrace)
          /\ \A i \in DOMAIN results : results[i]["Job URL"] = jobs[i]
    /\ BatchReturned =>
          /\ Len(results) = Len(jobs)
          /\ \A i \in DOMAIN jobs : results[i]["Job URL"] = jobs[i]

\* a batch of an invalid URL and a job that was analysed has returned
C21_Witness ==
    /\ BatchReturned
    /\ Len(jobs) = 2
    /\ jobs[1] = cSpace \o uLinkedin
    /\ results[1]["Status"] = "Invalid URL"
    /\ "Overall Fit Score" \in DOMAIN results[2]
    /\ results[2]["Job URL"] = uLinkedinJobs

RECURSIVE Requests(_)
\* the requests and waits of the passes in t, each request with its URL
Requests(t) ==
    IF t = <<>> THEN <<>>
    ELSE [i \in DOMAIN t[1].events |->
             [ev |-> t[1].events[i].ev, url |-> t[1].url,
              secs |-> t[1].events[i].secs]]
         \o Requests(Tail(t))

\* positions p < q hold consecutive requests
ConsecutiveGets(evs, p, q) ==
    /\ p < q
    /\ evs[p].ev = "get"
    /\ evs[q].ev = "get"
    /\ \A k \in (p + 1)..(q - 1) : evs[k].ev # "get"

\* C22: between two consecutive scrape requests for different URLs of one
\* batch there is a pause of at least one second.
C22_PauseBetweenUrls ==
    LET evs == Requests(btrace) IN
    \A p, q \in DOMAIN evs :
       (ConsecutiveGets(evs, p, q) /\ evs[p].url # evs[q].url)
          => \E k \in (p + 1)..(q - 1) :
                evs[k].ev = "sleep" /\ evs[k].secs >= 1

\* C29: in the summary every row is counted exactly once: successful (the
\* rows with 'Overall Fit Score') plus failed (the rows with 'Status') is
\* total_jobs, the number of job URLs, and no row carries both keys.
C29_RowsCountedOnce ==
    BatchReturned =>
       /\ summary[1].successful
             = Cardinality(Carrying(results, "Overall Fit Score"))
       /\ summary[1].failed = Cardinality(Carrying(results, "Status"))
       /\ summary[1].successful + summary[1].failed = summary[1].total_jobs
       /\ summary[1].total_jobs = Len(jobs)
       /\ Carrying(results, "Overall Fit Score")
             \cap Carrying(results, "Status") = {}

\* a summary of one job analysed and one job failed
C29_Witness ==
    /\ BatchReturned
    /\ summary[1].successful = 1
    /\ summary[1].failed = 1
    /\ \E i \in DOMAIN results : results[i]["Job URL"] = uLinkedin
                                 /\ "Status" \in DOMAIN results[i]
                                 /\ results[i]["Status"] = "Processing error"

\* the candidate_info of the first pass in t that analysed its job
FirstInfo(t) ==
    LET done == { i \in DOMAIN t : t[i].info # None }
    IN  IF done = {} THEN None
        ELSE t[CHOOSE i \in done : \A j \in done : i <= j].info

\* C30: candidate_info in the summary is the candidate_info of the first
\* successfully analysed job of that same call, and None when no job of the
\* call succeeded, also on an instance used for earlier batches.
C30_CandidateOfThisCall ==
    BatchReturned => summary[1].candidate_info = FirstInfo(btrace)

---------------------------------------------------------------------------
(* C27 *)

\* a candidate the chain keeps: at least 3 characters, no interface text,
\* and none of the words 'apply', 'website', 'loading'
KeptCandidate(c) ==
    /\ Len(c) >= 3
    /\ \A k \in DOMAIN UiTextPatterns, i \in 1..Len(c) :
          UiMatchEnd(UiTextPatterns[k], c, i) = 0
    /\ \A w \in {cApply, cWebsite, cLoading} : ~Contains(Lower(c), w)

\* the candidate of the selector stage: a match of more than 2 and fewer
\* than 100 characters
SelectorCandidate(r) ==
    IF AcceptedCompany(r.company) THEN r.company ELSE <<>>

\* the candidate of the <title> stage
TitleCandidate(r) ==
    IF r.ptitle = <<>> THEN <<>> ELSE TitleCompany(r.ptitle[1])

\* the company the ordered chain gives for the page r and its description
ChainCompany(r, description) ==
    IF KeptCandidate(SelectorCandidate(r)) THEN SelectorCandidate(r)
    ELSE IF KeptCandidate(TitleCandidate(r)) THEN TitleCandidate(r)
    ELSE IF r.found # <<>> THEN r.found
    ELSE FirstCapitalizedWord(description)

\* C27: the company of a LinkedIn result comes from an ordered chain:
\* selector match of a length strictly between 2 and 100, then the page
\* <title>, then the patterns over the description, then the first
\* capitalized token; a later stage is consulted only when every earlier
\* stage left the company empty or had its candidate discarded, and a kept
\* candidate of an earlier stage is not overwritten by a later stage.
C27_CompanyChain ==
    \A i \in DOMAIN responses :
        LET r == responses[i]
            v == outcomes[i].value
        IN  (/\ StrategyOf(i) = "linkedin"
             /\ r.kind = "page"
             /\ v[1] = TRUE
             /\ \/ KeptCandidate(SelectorCandidate(r))
                \/ SelectorCandidate(r) = <<>>
             /\ \/ KeptCandidate(TitleCandidate(r))
                \/ TitleCandidate(r) = <<>>) =>
                v[4] = ChainCompany(r, v[3])

---------------------------------------------------------------------------
(* The LinkedIn extractor: title, description containers and sections *)

\* ui_indicators of the description pass
UiIndicators ==
    { <<"a", "p", "p", "l", "y">>,
      <<"j", "o", "i", "n">>,
      <<"s", "i", "g", "n", " ", "i", "n">>,
      <<"f", "i", "r", "s", "t", " ", "n", "a", "m", "e">>,
      <<"l", "a", "s", "t", " ", "n", "a", "m", "e">>,
      <<"e", "m", "a", "i", "l">>,
      <<"p", "a", "s", "s", "w", "o", "r", "d">>,
      <<"a", "g", "r", "e", "e", " ", "&", " ", "j", "o", "i", "n">>,
      <<"c", "o", "n", "t", "i", "n", "u", "e">>,
      <<"s", "e", "c", "u", "r", "i", "t", "y", " ", "v", "e", "r", "i", "f", "i", "c", "a", "t", "i", "o", "n">>,
      <<"a", "l", "r", "e", "a", "d", "y", " ", "o", "n", " ", "l", "i", "n", "k", "e", "d", "i", "n">>,
      <<"n", "e", "w", " ", "t", "o", " ", "l", "i", "n", "k", "e", "d", "i", "n">>,
      <<"r", "e", "m", "o", "v", "e", " ", "p", "h", "o", "t", "o">>,
      <<"f", "o", "r", "g", "o", "t", " ", "p", "a", "s", "s", "w", "o", "r", "d">>,
      <<"s", "h", "o", "w">>,
      <<"h", "i", "d", "e">> }

\* job_indicators of the description pass
JobIndicators ==
    { <<"r", "e", "q", "u", "i", "r", "e", "m", "e", "n", "t", "s">>,
      <<"q", "u", "a", "l", "i", "f", "i", "c", "a", "t", "i", "o", "n", "s">>,
      <<"r", "e", "s", "p", "o", "n", "s", "i", "b", "i", "l", "i", "t", "i", "e", "s">>,
      <<"a", "b", "o", "u", "t">>,
      <<"r", "o", "l", "e">>,
      <<"p", "o", "s", "i", "t", "i", "o", "n">>,
      <<"e", "x", "p", "e", "r", "i", "e", "n", "c", "e">>,
      <<"s", "k", "i", "l", "l", "s">>,
      <<"d", "u", "t", "i", "e", "s">>,
      <<"e", "x", "p", "e", "c", "t", "a", "t", "i", "o", "n", "s">>,
      <<"c", "a", "n", "d", "i", "d", "a", "t", "e">>,
      <<"a", "p", "p", "l", "i", "c", "a", "n", "t">>,
      <<"j", "o", "b", " ", "d", "e", "s", "c", "r", "i", "p", "t", "i", "o", "n">>,
      <<"w", "h", "a", "t", " ", "y", "o", "u", " ", "w", "i", "l", "l", " ", "d", "o">>,
      <<"w", "h", "a", "t", " ", "y", "o", "u", "'", "l", "l", " ", "d", "o">>,
      <<"k", "e", "y", " ", "r", "e", "s", "p", "o", "n", "s", "i", "b", "i", "l", "i", "t", "i", "e", "s">>,
      <<"e", "s", "s", "e", "n", "t", "i", "a", "l", " ", "f", "u", "n", "c", "t", "i", "o", "n", "s">>,
      <<"o", "p", "p", "o", "r", "t", "u", "n", "i", "t", "y">>,
      <<"m", "i", "s", "s", "i", "o", "n">>,
      <<"c", "o", "m", "p", "a", "n", "y">>,
      <<"t", "e", "a", "m">> }

\* section_indicators, in the order they are tried
SectionIndicators ==
    << "about the job", "about us", "about the company",
       "what's the opportunity", "what will i be doing",
       "what skills do i need", "requirements", "qualifications" >>

\* the bounds of the tests of the extractor
TitleMinLength == 3
TitleMaxLength == 200
CandidateMinLength == 200
FallbackMinLength == 500
SiblingMinLength == 20
MaxContentParts == 10
EnoughLength == 500

RECURSIVE TitleLoop(_, _)
\* the loop over title_selectors: matches holds, per selector, the text of
\* the element select_one found (None where it found none)
TitleLoop(matches, title) ==
    IF matches = <<>> THEN title
    ELSE IF Head(matches) = None THEN TitleLoop(Tail(matches), title)
    ELSE IF /\ Head(matches)[1] # <<>>
            /\ Len(Head(matches)[1]) > TitleMinLength
            /\ Len(Head(matches)[1]) < TitleMaxLength
    THEN Head(matches)[1]
    ELSE TitleLoop(Tail(matches), Head(matches)[1])

\* the left-hand segment of the text of <title>
TitleSegment(title, title_text) ==
    IF Contains(title_text, cAtSep)
    THEN Strip(SplitFirst(title_text, cAtSep))
    ELSE IF Contains(title_text, cBarSep)
    THEN Strip(SplitFirst(title_text, cBarSep))
    ELSE IF Contains(title_text, cDashSep)
    THEN Strip(SplitFirst(title_text, cDashSep))
    ELSE title

\* the fallback to <title> after the loop
TitleFallback(title, ptitle) ==
    IF title = <<>> \/ Len(title) < TitleMinLength
    THEN IF ptitle = None THEN title
         ELSE TitleSegment(title, Strip(ptitle[1]))
    ELSE title

\* the title extraction of _scrape_linkedin
LinkedinTitle(d) == TitleFallback(TitleLoop(d.titles, <<>>), d.ptitle)

has_ui_content(t) == \E w \in UiIndicators : Contains(Lower(t), w)
has_job_content(t) == \E w \in JobIndicators : Contains(Lower(t), w)

\* the body of the loop over the elements of the description containers
Consider(description, t) ==
    IF t = <<>> \/ Len(t) <= CandidateMinLength THEN description
    ELSE IF /\ has_job_content(t)
            /\ ~has_ui_content(t)
            /\ Len(t) > Len(description)
    THEN t
    ELSE IF description = <<>> /\ Len(t) > FallbackMinLength THEN t
    ELSE description

RECURSIVE PrimaryPass(_, _)
\* the loops over main_desc_selectors and the elements each selects, for
\* the texts of the elements in the order the loops visit them
PrimaryPass(texts, description) ==
    IF texts = <<>> THEN description
    ELSE PrimaryPass(Tail(texts), Consider(description, Head(texts)))

SiblingNames == {"p", "div", "li", "ul", "ol"}

\* the list after the sibling sib: its text is appended when long enough
WithSibling(parts, sib) ==
    IF sib.text # <<>> /\ Len(sib.text) > SiblingMinLength
    THEN Append(parts, sib.text) ELSE parts

RECURSIVE CollectParts(_, _)
\* the loop over parent.find_next_siblings()
CollectParts(siblings, parts) ==
    IF siblings = <<>> THEN parts
    ELSE IF Head(siblings).name \notin SiblingNames
    THEN CollectParts(Tail(siblings), parts)
    ELSE IF Len(WithSibling(parts, Head(siblings))) > MaxContentParts
    THEN WithSibling(parts, Head(siblings))
    ELSE CollectParts(Tail(siblings), WithSibling(parts, Head(siblings)))

RECURSIVE JoinLines(_)
\* '\n'.join(content_parts)
JoinLines(parts) ==
    IF parts = <<>> THEN <<>>
    ELSE IF Len(parts) = 1 THEN parts[1]
    ELSE parts[1] \o <<"\n">> \o JoinLines(Tail(parts))

\* the description and the heading matches handled so far
Assembled(description, visited) ==
    [description |-> description, visited |-> visited]

\* one heading match of indicator k handled: its parts, when there are any,
\* become the description
AfterMatch(k, parts, acc) ==
    Assembled(IF parts = <<>> THEN acc.description ELSE JoinLines(parts),
              Append(acc.visited,
                     [indicator |-> k, parts |-> Len(parts),
                      description |->
                         IF parts = <<>> THEN acc.description
                         ELSE JoinLines(parts)]))

RECURSIVE ElementsLoop(_, _, _)
RECURSIVE ElementsNext(_, _, _, _)
\* the loop over the text nodes that match indicator k
ElementsLoop(k, matches, acc) ==
    IF matches = <<>> THEN acc
    ELSE ElementsNext(k, matches, CollectParts(Head(matches), <<>>),
                      AfterMatch(k, CollectParts(Head(matches), <<>>), acc))

\* the break of the loop over the text nodes
ElementsNext(k, matches, parts, acc) ==
    IF parts # <<>> /\ Len(acc.description) > EnoughLength THEN acc
    ELSE ElementsLoop(k, Tail(matches), acc)

RECURSIVE IndicatorsLoop(_, _, _)
\* the loop over section_indicators from indicator k on
IndicatorsLoop(k, headings, acc) ==
    IF k > Len(SectionIndicators) THEN acc
    ELSE IndicatorsLoop(k + 1, headings, ElementsLoop(k, headings[k], acc))

\* the section pass: headings holds, per indicator, the text nodes that
\* match it, each as the list of the following siblings of its parent
SecondaryPass(description, headings) ==
    IF description = <<>> \/ Len(description) < EnoughLength
    THEN IndicatorsLoop(1, headings, Assembled(description, <<>>))
    ELSE Assembled(description, <<>>)

\* the most selector matches, container elements and heading matches of a
\* page
MaxTitleMatches == 2
MaxElements == 2
MaxMatches == 2

\* n characters that hold no indicator
Fill(n) == [i \in 1..n |-> "x"]

\* a text of n characters that names requirements and experience
JobText(n) == Pad50 \o Fill(n - 50)

\* a text of n characters of a sign-in form
FormText(n) ==
    Pad50 \o <<" ", "s", "i", "g", "n", " ", "i", "n", " ">> \o Fill(n - 59)

tQa == <<"Q", "A">>
tDev == <<"D", "e", "v">>
ptOnlyDash ==
    <<"E", "n", "g", "i", "n", "e", "e", "r", " ", "-", " ",
      "G", "l", "o", "b", "e", "x">>

TitleTexts ==
    { None, Some(<<>>), Some(tQa), Some(tDev), Some(tDataEngineer),
      Some(Fill(199)), Some(Fill(200)) }

TitleTags == { None, Some(ptAt), Some(ptDash), Some(ptOnlyDash), Some(tGlobex) }

ElementTexts ==
    { JobText(200), JobText(250), JobText(600), Fill(300), Fill(600),
      FormText(600) }

Sib(name, t) == [name |-> name, text |-> t]

\* heading matches: the siblings that follow the parent of the text node
TwoLong == << Sib("p", JobText(250)), Sib("div", JobText(250)) >>
TwoExact == << Sib("p", JobText(250)), Sib("p", JobText(249)) >>
Dozen == [i \in 1..12 |-> Sib("li", Fill(21))]
OneShort == << Sib("span", JobText(250)), Sib("p", Fill(20)),
               Sib("p", Fill(21)) >>
HeadingMatches == { TwoLong, TwoExact, Dozen, OneShort }

SeqsUpTo(S, n) == UNION { [1..k -> S] : k \in 0..n }

\* a page: the title selector matches, <title>, the texts of the container
\* elements, and the heading matches per section indicator
Page(titles, ptitle, elements, headings) ==
    [titles |-> titles, ptitle |-> ptitle, elements |-> elements,
     headings |-> headings]

NoHeadings == [k \in DOMAIN SectionIndicators |-> <<>>]

Headings(first, seventh) ==
    [k \in DOMAIN SectionIndicators |->
        IF k = 1 THEN first ELSE IF k = 7 THEN seventh ELSE <<>>]

Pages ==
    { Page(ts, pt, <<JobText(250)>>, NoHeadings) :
        ts \in SeqsUpTo(TitleTexts, MaxTitleMatches), pt \in TitleTags }
    \cup
    { Page(<<Some(tDataEngineer)>>, None, es, NoHeadings) :
        es \in SeqsUpTo(ElementTexts, MaxElements) }
    \cup
    { Page(<<Some(tDataEngineer)>>, None, es, Headings(a, b)) :
        es \in {<<>>, <<JobText(250)>>, <<JobText(600)>>},
        a \in SeqsUpTo(HeadingMatches, MaxMatches),
        b \in {<<>>, <<OneShort>>} }

InitLinkedin ==
    /\ NoScraping /\ NoWorkflow /\ NoBatch
    /\ \E d \in Pages : doc = Some(d)
    /\ got = None

restVars == <<scraperVars, cleanerVars, sessionVars, workflowVars, batchVars>>

\* the title extraction
TitleStep ==
    /\ got = None
    /\ got' = Some([stage |-> "title", title |-> LinkedinTitle(doc[1]),
                    primary |-> <<>>, description |-> <<>>,
                    visited |-> <<>>])
    /\ UNCHANGED <<doc, restVars>>

\* the pass over the description containers
PrimaryStep ==
    /\ got # None
    /\ got[1].stage = "title"
    /\ got' = Some([got[1] EXCEPT
                      !.stage = "primary",
                      !.primary = PrimaryPass(doc[1].elements, <<>>),
                      !.description = PrimaryPass(doc[1].elements, <<>>)])
    /\ UNCHANGED <<doc, restVars>>

\* the pass over the sections
SectionStep ==
    /\ got # None
    /\ got[1].stage = "primary"
    /\ got' = Some([got[1] EXCEPT
                      !.stage = "sections",
                      !.description =
                          SecondaryPass(got[1].primary,
                                        doc[1].headings).description,
                      !.visited =
                          SecondaryPass(got[1].primary,
                                        doc[1].headings).visited])
    /\ UNCHANGED <<doc, restVars>>

NextLinkedin ==
    \/ TitleStep
    \/ PrimaryStep
    \/ SectionStep

SpecLinkedin == InitLinkedin /\ [][NextLinkedin]_vars

---------------------------------------------------------------------------
(* C24, C25, C26 *)

\* the extraction has passed the stage
Passed(stage) ==
    /\ got # None
    /\ \/ got[1].stage = stage
       \/ stage = "title"
       \/ (stage = "primary" /\ got[1].stage = "sections")

\* a candidate of the description pass qualifies: more than 200 characters,
\* a job-content indicator and no indicator of the interface
Qualifies(t) ==
    /\ Len(t) > 200
    /\ \E w \in JobIndicators : Contains(Lower(t), w)
    /\ \A w \in UiIndicators : ~Contains(Lower(t), w)

Qualifying == { i \in DOMAIN doc[1].elements : Qualifies(doc[1].elements[i]) }

\* C24: in the description pass over the containers, whenever at least one
\* candidate qualifies the chosen description is the longest qualifying
\* candidate, and a disqualified candidate of more than 500 characters is
\* chosen only when no candidate qualifies, whatever the order of the
\* elements.
C24_LongestQualifying ==
    Passed("primary") =>
       /\ Qualifying # {} =>
             \E i \in Qualifying :
                /\ got[1].primary = doc[1].elements[i]
                /\ \A j \in Qualifying :
                      Len(doc[1].elements[j]) <= Len(doc[1].elements[i])
       /\ (got[1].primary # <<>> /\ ~Qualifies(got[1].primary)) =>
             Qualifying = {}

\* C25: the section pass runs only when the container pass left the
\* description empty or under 500 characters; it takes the text of at most
\* 10 following siblings per heading match; and it stops as soon as the
\* assembled description has at least 500 characters: no later heading
\* match or section phrase is processed and the description is not
\* replaced afterwards.
C25_SectionPass ==
    Passed("sections") =>
       LET seen == got[1].visited IN
       /\ seen # <<>> => Len(got[1].primary) < 500
       /\ \A i \in DOMAIN seen : seen[i].parts <= 10
       /\ \A i \in DOMAIN seen :
             (seen[i].parts > 0 /\ Len(seen[i].description) >= 500) =>
                /\ i = Len(seen)
                /\ got[1].description = seen[i].description

\* the selector matches of a length strictly between 3 and 200
GoodTitles ==
    { i \in DOMAIN doc[1].titles :
        /\ doc[1].titles[i] # None
        /\ Len(doc[1].titles[i][1]) > 3
        /\ Len(doc[1].titles[i][1]) < 200 }

\* the left-hand segment of the text of <title>: split on ' at ', else on
\* ' | ', else on ' - '; empty when there is no <title> or no separator
LeftSegment(ptitle) ==
    IF ptitle = None THEN <<>>
    ELSE IF Occurrences(ptitle[1], cAtSep) # {}
    THEN Strip(BeforeFirst(ptitle[1], cAtSep))
    ELSE IF Occurrences(ptitle[1], cBarSep) # {}
    THEN Strip(BeforeFirst(ptitle[1], cBarSep))
    ELSE IF Occurrences(ptitle[1], cDashSep) # {}
    THEN Strip(BeforeFirst(ptitle[1], cDashSep))
    ELSE <<>>

\* C26: the title of a LinkedIn result is the text of the first title
\* selector match of a length strictly between 3 and 200, or, when no match
\* has such a length, the left-hand segment of the page <title>, or empty;
\* a match of 3 or fewer, or of 200 or more, characters is never the title.
C26_TitleWithinBounds ==
    Passed("title") =>
       IF GoodTitles # {}
       THEN got[1].title = doc[1].titles[First(GoodTitles)][1]
       ELSE got[1].title = LeftSegment(doc[1].ptitle)

====
